---- MODULE Spec2Model ----
(***************************************************************************)
(* Verification model of the APAS performance-calculation engine:          *)
(* backend/analytics/services.py (PerformanceCalculator),                  *)
(* backend/analytics/signals.py (post-commit change trigger) and the grade *)
(* write paths of backend/grades/views.py and serializers.py.              *)
(*                                                                         *)
(* Decimal(…, 2) quantities are integers counting hundredths: a grade of   *)
(* 16.00 is 1600, a coefficient of 1.50 is 150, a progression of 14.29 %   *)
(* is 1429.  Python's None is the empty tuple, a present value v is <<v>>. *)
(***************************************************************************)
EXTENDS Integers, Sequences, FiniteSets, TLC

(***************************************************************************)
(* Bounds of the model.                                                    *)
(***************************************************************************)
Students    == {1, 2}
Subjects    == {1, 2}
Semesters   == {1, 2}
GradeValues == {10, 1400}
BulkValues  == {1400, 2001}
BulkSizes   == {1, 2}
MaxRequests == 2
\* the ids a direct recalculation is called with: those of the rows and one
\* id no row has
RequestedStudents == {1, 2, 3}
RequestedSemesters == {1, 2, 3}

None    == <<>>
Some(x) == <<x>>
NullSubject == 0

VARIABLES
    student,      \* Student table: id -> [class_assigned, is_active]
    subject,      \* Subject table: id -> [coefficient]
    semester,     \* Semester table: id -> [academic_year, start_date]
    roster,       \* order in which an unordered Student query enumerates rows
    grades,       \* committed Grade table: <<student, subject, semester>> -> value
    indicators,   \* committed PerformanceIndicator table: <<student, semester, subject-or-0>> -> row
    extra,        \* committed second rows of a key: overall key -> row
    twice,        \* the triples of which the Grade table holds a second row
    nreq,         \* number of requests served so far
    last,         \* record of the request served last
    \* the requests in flight of the concurrent specification, per thread
    started,      \* number of requests the threads have taken up
    pc,           \* position of the thread in its request
    req,          \* the request: [kind, items, gone], items a sequence of <<triple, value>>
    idx,          \* bulk_create: the item to insert next
    txn,          \* "none", "open", "committed" or "rolledback"
    pend,         \* uncommitted grade writes of the open transaction
    hooks,        \* connection.run_on_commit: the queued <<student, semester>>
    ret,          \* where the thread goes on after a recalculation
    cur,          \* the <<student, semester>> being recalculated
    rtodo,        \* recalculation: subjects of the loaded grades still to do
    ravg,         \* recalculation: the subject average just read
    rover,        \* recalculation: the defaults computed for the overall row
    wbuf,         \* recalculation: indicator rows written and not yet committed
    events,       \* grade events (saves, deletes) of the request, as <<student, semester>>
    invoked,      \* calls of recalculate_all_indicators made for the request
    outcomes,     \* outcome of each of these calls
    result        \* the calculator specification: the value a calculator returned

dirVars  == <<student, subject, semester, roster>>
seqVars  == <<nreq, last>>
concVars == <<started, pc, req, idx, txn, pend, hooks, ret, cur, rtodo, ravg, rover, wbuf,
              events, invoked, outcomes>>
vars     == <<student, subject, semester, roster, grades, indicators, extra, twice,
              nreq, last,
              started, pc, req, idx, txn, pend, hooks, ret, cur, rtodo, ravg, rover,
              wbuf, events, invoked, outcomes, result>>

Triples == Students \X Subjects \X Semesters
Keys    == Students \X Semesters \X (Subjects \cup {NullSubject})

(***************************************************************************)
(* Decimal arithmetic.                                                     *)
(***************************************************************************)
\* fault variant of RoundHalfEven: the digits after the second decimal are
\* cut off
RoundDown(num, den) == num \div den

\* round(Decimal, 2): quantize with ROUND_HALF_EVEN; num/den with den > 0
RoundHalfEven(num, den) ==
    LET q == num \div den
        r == num - q * den
    IN  IF 2 * r < den THEN q
        ELSE IF 2 * r > den THEN q + 1
        ELSE IF q % 2 = 0 THEN q ELSE q + 1

RECURSIVE SumOver(_, _)
SumOver(S, f) ==
    IF S = {} THEN 0
    ELSE LET x == CHOOSE y \in S : TRUE
         IN  f[x] + SumOver(S \ {x}, f)

\* largest m >= lo with m * m <= x, searched in lo..hi
RECURSIVE FloorSqrt(_, _, _)
FloorSqrt(x, lo, hi) ==
    IF lo >= hi THEN lo
    ELSE LET mid == (lo + hi + 1) \div 2
         IN  IF mid * mid <= x THEN FloorSqrt(x, mid, hi)
             ELSE FloorSqrt(x, lo, mid - 1)

(***************************************************************************)
(* Initial directory data: two active students of one class, the two       *)
(* subjects of analytics/tests/test_services.py (coefficients 2.00 and     *)
(* 1.50) and two semesters of one academic year.                           *)
(***************************************************************************)
InitStudent  == [s \in Students |-> [class_assigned |-> 1, is_active |-> TRUE]]
InitSubject  == [c \in Subjects |-> [coefficient |-> IF c = 1 THEN 200 ELSE 150]]
InitSemester == [m \in Semesters |-> [academic_year |-> 1, start_date |-> m]]

(***************************************************************************)
(* Queries.                                                                *)
(***************************************************************************)
\* Student.objects.filter(class_assigned_id=class_id, is_active=True), in the
\* order the database enumerates the rows
ActiveStudentsOf(class_id) ==
    SelectSeq(roster, LAMBDA s : s \in DOMAIN student
                                 /\ student[s].class_assigned = class_id
                                 /\ student[s].is_active)

\* Grade.objects.filter(student_id=..., semester_id=...): the graded subjects
GradedSubjects(g, student_id, semester_id) ==
    {c \in Subjects : <<student_id, c, semester_id>> \in DOMAIN g}

(***************************************************************************)
(* PerformanceCalculator: the calculators.                                 *)
(***************************************************************************)
\* fault variant of calculate_subject_average: the grade's value weighted by
\* the coefficient of the subject
subject_average_weighted(g, student_id, subject_id, semester_id) ==
    IF <<student_id, subject_id, semester_id>> \in DOMAIN g
    THEN Some(RoundHalfEven(g[<<student_id, subject_id, semester_id>>]
                                * subject[subject_id].coefficient, 100))
    ELSE None

\* lines 43-52: the first grade of the triple (the unique key leaves one at
\* most), grade.value if there is one, else None
calculate_subject_average(g, student_id, subject_id, semester_id) ==
    IF <<student_id, subject_id, semester_id>> \in DOMAIN g
    THEN Some(g[<<student_id, subject_id, semester_id>>])
    ELSE None

\* fault variant of calculate_overall_average: the weighted sum is divided by
\* the number of graded subjects (coefficient 1.00 each) instead of by the sum
\* of the coefficients
overall_average_by_count(g, student_id, semester_id) ==
    LET graded == GradedSubjects(g, student_id, semester_id)
        total_weighted_grade ==
            SumOver(graded, [c \in graded |->
                g[<<student_id, c, semester_id>>] * subject[c].coefficient])
        total_coefficient ==
            SumOver(graded, [c \in graded |-> subject[c].coefficient])
    IN  IF graded = {} THEN None
        ELSE IF total_coefficient = 0 THEN None
        ELSE Some(RoundHalfEven(total_weighted_grade, 100 * Cardinality(graded)))

\* fault variant of calculate_overall_average: 0.00 where the source returns
\* None
overall_average_or_zero(g, student_id, semester_id) ==
    LET graded == GradedSubjects(g, student_id, semester_id)
        total_weighted_grade ==
            SumOver(graded, [c \in graded |->
                g[<<student_id, c, semester_id>>] * subject[c].coefficient])
        total_coefficient ==
            SumOver(graded, [c \in graded |-> subject[c].coefficient])
    IN  IF graded = {} \/ total_coefficient = 0 THEN Some(0)
        ELSE Some(RoundHalfEven(total_weighted_grade, total_coefficient))

\* lines 84-85: no grade, None; lines 100-101: a zero sum of coefficients,
\* None; line 106: the rounded quotient
calculate_overall_average(g, student_id, semester_id) ==
    LET graded == GradedSubjects(g, student_id, semester_id)
        total_weighted_grade ==
            SumOver(graded, [c \in graded |->
                g[<<student_id, c, semester_id>>] * subject[c].coefficient])
        total_coefficient ==
            SumOver(graded, [c \in graded |-> subject[c].coefficient])
    IN  IF graded = {} THEN None
        ELSE IF total_coefficient = 0 THEN None
        ELSE Some(RoundHalfEven(total_weighted_grade, total_coefficient))

\* fault variant of calculate_progression: the difference is taken relative
\* to the current average
progression_of_current(g, student_id, current_semester_id, previous_semester_id) ==
    LET current_avg  == calculate_overall_average(g, student_id, current_semester_id)
        previous_avg == calculate_overall_average(g, student_id, previous_semester_id)
    IN  IF current_avg = None \/ previous_avg = None THEN None
        ELSE IF current_avg[1] = 0 THEN None
        ELSE Some(RoundHalfEven((current_avg[1] - previous_avg[1]) * 10000,
                                current_avg[1]))

\* the result is a percentage in hundredths: 100 * 100 * (cur - prev) / prev
calculate_progression(g, student_id, current_semester_id, previous_semester_id) ==
    LET current_avg  == calculate_overall_average(g, student_id, current_semester_id)
        previous_avg == calculate_overall_average(g, student_id, previous_semester_id)
    IN  IF current_avg = None \/ previous_avg = None THEN None
        ELSE IF previous_avg[1] = 0 THEN None
        ELSE Some(RoundHalfEven((current_avg[1] - previous_avg[1]) * 10000,
                                previous_avg[1]))

\* the overall averages of a sequence of students, the students without one
\* left out: the list `averages` of calculate_class_statistics and of
\* _calculate_class_rank, as <<student id, average>> pairs
RECURSIVE AveragesOf(_, _, _)
AveragesOf(g, studs, semester_id) ==
    IF studs = <<>> THEN <<>>
    ELSE LET avg == calculate_overall_average(g, Head(studs), semester_id)
             rest == AveragesOf(g, Tail(studs), semester_id)
         IN  IF avg = None THEN rest ELSE <<<<Head(studs), avg[1]>>>> \o rest

RECURSIVE SeqSum(_)
SeqSum(q) == IF q = <<>> THEN 0 ELSE Head(q) + SeqSum(Tail(q))

\* round(Decimal(str(variance ** 0.5)), 2) of n averages with sum s1 and sum
\* of squares s2.  The population deviation is sqrt(n*s2 - s1*s1) / n; mm is
\* the floor of twice the deviation, so the deviation lies in [mm/2, (mm+1)/2).
\* The source computes in binary floating point: its result can differ from
\* this one only where the deviation lies exactly half-way between two
\* hundredths, which the averages of GradeValues never produce.
StdDevOf(n, s1, s2) ==
    LET d  == n * s2 - s1 * s1
        mm == FloorSqrt(4 * d, 0, 4000 * n) \div n
    IN  IF mm % 2 = 0 THEN mm \div 2
        ELSE IF mm * mm * n * n < 4 * d THEN (mm + 1) \div 2
        ELSE IF ((mm - 1) \div 2) % 2 = 0 THEN (mm - 1) \div 2 ELSE (mm + 1) \div 2

calculate_class_statistics(g, class_id, semester_id) ==
    LET students == ActiveStudentsOf(class_id)
        averages == AveragesOf(g, students, semester_id)
        n  == Len(averages)
        s1 == SeqSum([i \in 1..n |-> averages[i][2]])
        s2 == SeqSum([i \in 1..n |-> averages[i][2] * averages[i][2]])
    IN  IF students = <<>>
        THEN [mean |-> None, std_dev |-> None, student_count |-> 0]
        ELSE IF averages = <<>>
        THEN [mean |-> None, std_dev |-> None, student_count |-> Len(students)]
        ELSE [mean |-> Some(RoundHalfEven(s1, n)),
              std_dev |-> IF n > 1 THEN Some(StdDevOf(n, s1, s2)) ELSE Some(0),
              student_count |-> n]

\* fault variant of InsertByAverage: a pair goes before the pairs of equal
\* average, so equal averages end in the reverse of their order of enumeration
RECURSIVE InsertBeforeEqual(_, _)
InsertBeforeEqual(sorted, pair) ==
    IF sorted = <<>> THEN <<pair>>
    ELSE IF Head(sorted)[2] > pair[2]
         THEN <<Head(sorted)>> \o InsertBeforeEqual(Tail(sorted), pair)
         ELSE <<pair>> \o sorted

\* averages.sort(key=lambda x: x[1], reverse=True): a stable sort, equal
\* averages keep their order of enumeration
RECURSIVE InsertByAverage(_, _)
InsertByAverage(sorted, pair) ==
    IF sorted = <<>> THEN <<pair>>
    ELSE IF Head(sorted)[2] >= pair[2]
         THEN <<Head(sorted)>> \o InsertByAverage(Tail(sorted), pair)
         ELSE <<pair>> \o sorted

RECURSIVE SortByAverageDesc(_)
SortByAverageDesc(q) ==
    IF q = <<>> THEN <<>>
    ELSE InsertByAverage(SortByAverageDesc(SubSeq(q, 1, Len(q) - 1)), q[Len(q)])

\* fault variant of _calculate_class_rank: one more than the number of
\* classmates with a higher average, equal averages sharing a rank
competition_rank(g, student_id, semester_id, student_average) ==
    IF student_id \notin DOMAIN student THEN None
    ELSE LET classmates == ActiveStudentsOf(student[student_id].class_assigned)
             averages == AveragesOf(g, classmates, semester_id)
             own == {i \in 1..Len(averages) : averages[i][1] = student_id}
         IN  IF own = {} THEN None
             ELSE Some(1 + Cardinality({i \in 1..Len(averages) :
                           \A o \in own : averages[i][2] > averages[o][2]}))

\* lines 352-378: the student's 1-based position in the list of the active
\* classmates' averages sorted highest first; None for a student who is not
\* in the list
_calculate_class_rank(g, student_id, semester_id, student_average) ==
    IF student_id \notin DOMAIN student THEN None
    ELSE LET classmates == ActiveStudentsOf(student[student_id].class_assigned)
             averages == SortByAverageDesc(AveragesOf(g, classmates, semester_id))
             ranks == {r \in 1..Len(averages) : averages[r][1] = student_id}
         IN  IF ranks = {} THEN None
             ELSE Some(CHOOSE r \in ranks : \A o \in ranks : r <= o)

(***************************************************************************)
(* PerformanceIndicator rows and update_or_create.                         *)
(***************************************************************************)
Fields == {"average", "standard_deviation", "progression_percentage", "class_rank"}

\* the value of a field a new row gets when the defaults do not name it
FieldDefault(f) == None

\* DecimalField(max_digits, decimal_places=2): a value of more than max_digits
\* digits cannot be written
FitsDecimal(v, max_digits) ==
    IF v = None THEN TRUE
    ELSE IF max_digits = 5 THEN v[1] > -100000 /\ v[1] < 100000
    ELSE v[1] > -1000000 /\ v[1] < 1000000

\* whether update_or_create can write these defaults
Storable(defaults) ==
    /\ ("average" \in DOMAIN defaults =>
            defaults["average"] > -100000 /\ defaults["average"] < 100000)
    /\ ("standard_deviation" \in DOMAIN defaults =>
            FitsDecimal(defaults["standard_deviation"], 5))
    /\ ("progression_percentage" \in DOMAIN defaults =>
            FitsDecimal(defaults["progression_percentage"], 6))

\* fault variant of update_or_create: get_or_create, which leaves a row that
\* exists as it is
get_or_create(ind, key, defaults) ==
    IF key \in DOMAIN ind THEN ind
    ELSE [k \in DOMAIN ind \cup {key} |->
             IF k = key
             THEN [f \in Fields |-> IF f \in DOMAIN defaults THEN defaults[f]
                                    ELSE FieldDefault(f)]
             ELSE ind[k]]

\* PerformanceIndicator.objects.update_or_create(<key>, defaults=defaults)
update_or_create(ind, key, defaults) ==
    LET row == [f \in Fields |->
                   IF f \in DOMAIN defaults THEN defaults[f]
                   ELSE IF key \in DOMAIN ind THEN ind[key][f]
                   ELSE FieldDefault(f)]
    IN  [k \in DOMAIN ind \cup {key} |-> IF k = key THEN row ELSE ind[k]]

(***************************************************************************)
(* PerformanceCalculator.recalculate_all_indicators.                       *)
(***************************************************************************)
\* fault variant of PreviousSemester: the earliest of the earlier semesters
EarliestSemester(semester_id) ==
    LET earlier == {m \in DOMAIN semester :
                       /\ semester[m].academic_year = semester[semester_id].academic_year
                       /\ semester[m].start_date < semester[semester_id].start_date}
    IN  IF earlier = {} THEN None
        ELSE Some(CHOOSE m \in earlier :
                      \A o \in earlier : semester[m].start_date <= semester[o].start_date)

\* Semester.objects.filter(academic_year=..., start_date__lt=...)
\*     .order_by('-start_date').first()
PreviousSemester(semester_id) ==
    LET earlier == {m \in DOMAIN semester :
                       /\ semester[m].academic_year = semester[semester_id].academic_year
                       /\ semester[m].start_date < semester[semester_id].start_date}
    IN  IF earlier = {} THEN None
        ELSE Some(CHOOSE m \in earlier :
                      \A o \in earlier : semester[o].start_date <= semester[m].start_date)

\* lines 262-273: the subject indicators, one upsert per grade of the student
RECURSIVE UpsertSubjects(_, _, _, _, _)
UpsertSubjects(g, ind, student_id, semester_id, todo) ==
    IF todo = {} THEN ind
    ELSE LET c   == CHOOSE x \in todo : \A y \in todo : x <= y
             avg == calculate_subject_average(g, student_id, c, semester_id)
             nxt == IF avg = None THEN ind
                    ELSE update_or_create(ind, <<student_id, semester_id, c>>,
                                          [average |-> avg[1]])
         IN  UpsertSubjects(g, nxt, student_id, semester_id, todo \ {c})

\* lines 276-312: the defaults of the overall indicator, None when the overall
\* average is unavailable
OverallDefaults(g, student_id, semester_id) ==
    LET overall_avg == calculate_overall_average(g, student_id, semester_id)
        previous_semester == PreviousSemester(semester_id)
        progression ==
            IF previous_semester = None THEN None
            ELSE calculate_progression(g, student_id, semester_id, previous_semester[1])
        class_rank == _calculate_class_rank(g, student_id, semester_id, overall_avg)
        class_stats == calculate_class_statistics(
                           g, student[student_id].class_assigned, semester_id)
    IN  IF overall_avg = None THEN None
        ELSE Some([average |-> overall_avg[1],
                   standard_deviation |-> class_stats.std_dev,
                   progression_percentage |-> progression,
                   class_rank |-> class_rank])

\* fault variant of UpsertOverall: without an overall average the overall
\* indicator is deleted
UpsertOverallOrClear(ind, ind1, key, overall) ==
    IF overall = None
    THEN [outcome |-> "ok", ind |-> [k \in DOMAIN ind1 \ {key} |-> ind1[k]]]
    ELSE IF ~Storable(overall[1]) THEN [outcome |-> "error", ind |-> ind]
    ELSE [outcome |-> "ok", ind |-> update_or_create(ind1, key, overall[1])]

\* lines 280 and 303-313: with an overall average, the overall indicator is
\* upserted onto the table ind1 the subject upserts left; a value the row
\* cannot hold raises, and the table is again ind, as it was before the call
UpsertOverall(ind, ind1, key, overall) ==
    IF overall = None THEN [outcome |-> "ok", ind |-> ind1]
    ELSE IF ~Storable(overall[1]) THEN [outcome |-> "error", ind |-> ind]
    ELSE [outcome |-> "ok", ind |-> update_or_create(ind1, key, overall[1])]

\* fault variant of recalculate_all_indicators: the class rank is read from the
\* stored overall indicators of the class instead of being computed from the
\* grades
RECURSIVE StoredAverages(_, _, _)
StoredAverages(ind, studs, semester_id) ==
    IF studs = <<>> THEN <<>>
    ELSE LET key  == <<Head(studs), semester_id, NullSubject>>
             rest == StoredAverages(ind, Tail(studs), semester_id)
         IN  IF key \in DOMAIN ind
             THEN <<<<Head(studs), ind[key].average>>>> \o rest
             ELSE rest

recalculate_with_stored_rank(g, ind, student_id, semester_id) ==
    IF student_id \notin DOMAIN student \/ semester_id \notin DOMAIN semester
    THEN [outcome |-> "notfound", ind |-> ind]
    ELSE LET ind1 == UpsertSubjects(g, ind, student_id, semester_id,
                                    GradedSubjects(g, student_id, semester_id))
             overall == OverallDefaults(g, student_id, semester_id)
             stored == SortByAverageDesc(StoredAverages(
                           ind1, ActiveStudentsOf(student[student_id].class_assigned),
                           semester_id))
             ranks == {r \in 1..Len(stored) : stored[r][1] = student_id}
             rank == IF ranks = {} THEN None
                     ELSE Some(CHOOSE r \in ranks : \A o \in ranks : r <= o)
         IN  IF overall = None THEN [outcome |-> "ok", ind |-> ind1]
             ELSE IF ~Storable(overall[1]) THEN [outcome |-> "error", ind |-> ind]
             ELSE [outcome |-> "ok",
                   ind |-> update_or_create(ind1, <<student_id, semester_id, NullSubject>>,
                                            [overall[1] EXCEPT !.class_rank = rank])]

\* fault variant of recalculate_all_indicators: the subject indicators of the
\* pair whose grade is gone are deleted
PruneSubjects(g, ind, student_id, semester_id) ==
    [k \in {k \in DOMAIN ind :
               ~(/\ k[1] = student_id /\ k[2] = semester_id /\ k[3] # NullSubject
                 /\ <<student_id, k[3], semester_id>> \notin DOMAIN g)} |-> ind[k]]
recalculate_and_prune(g, ind, student_id, semester_id) ==
    IF student_id \notin DOMAIN student \/ semester_id \notin DOMAIN semester
    THEN [outcome |-> "notfound", ind |-> ind]
    ELSE UpsertOverall(ind,
                       PruneSubjects(g,
                           UpsertSubjects(g, ind, student_id, semester_id,
                                          GradedSubjects(g, student_id, semester_id)),
                           student_id, semester_id),
                       <<student_id, semester_id, NullSubject>>,
                       OverallDefaults(g, student_id, semester_id))

\* the whole method under @transaction.atomic: the outcome and the indicator
\* table it leaves ("error" is an exception that leaves the method, which
\* rolls its writes back)
recalculate_all_indicators(g, ind, student_id, semester_id) ==
    IF student_id \notin DOMAIN student \/ semester_id \notin DOMAIN semester
    THEN [outcome |-> "notfound", ind |-> ind]
    ELSE UpsertOverall(ind,
                       UpsertSubjects(g, ind, student_id, semester_id,
                                      GradedSubjects(g, student_id, semester_id)),
                       <<student_id, semester_id, NullSubject>>,
                       OverallDefaults(g, student_id, semester_id))

\* The reads of the recalculation that sit inside a helper's own try block,
\* and the one that does not. A read that fails raises a database error.
FailingReads == {"calculate_subject_average", "calculate_overall_average",
                 "calculate_class_statistics", "_calculate_class_rank"}

\* the recalculation reaches the read: the subject averages are read for the
\* graded subjects, the statistics and the rank only once there is an overall
\* average
ReadReached(g, student_id, semester_id, read) ==
    /\ student_id \in DOMAIN student
    /\ semester_id \in DOMAIN semester
    /\ CASE read = "calculate_subject_average" ->
                GradedSubjects(g, student_id, semester_id) # {}
         [] read = "calculate_overall_average" -> TRUE
         [] OTHER -> calculate_overall_average(g, student_id, semester_id) # None

\* lines 220-229 and 380-384: calculate_class_statistics and
\* _calculate_class_rank catch every exception; the first returns std_dev
\* None, the second returns None
MaskedDefaults(read, overall) ==
    IF overall = None THEN None
    ELSE Some([overall[1] EXCEPT
                 !.standard_deviation =
                     IF read = "calculate_class_statistics" THEN None ELSE @,
                 !.class_rank =
                     IF read = "_calculate_class_rank" THEN None ELSE @])

\* recalculate_all_indicators when the named read fails. Lines 54-56:
\* calculate_subject_average catches every exception and returns None, and
\* line 267 then skips the subject. calculate_overall_average (lines 108-110)
\* catches arithmetic errors only, so its database error leaves the method.
\* aborts: the database has aborted the transaction on the failed statement
\* (PostgreSQL), so the next statement, the upsert, raises; otherwise the
\* failure is the statement's alone (SQLite, MySQL)
recalculate_with_failing_read(g, ind, student_id, semester_id, read, aborts) ==
    IF read = "calculate_overall_average" \/ aborts
    THEN [outcome |-> "error", ind |-> ind]
    ELSE UpsertOverall(ind,
                       UpsertSubjects(g, ind, student_id, semester_id,
                                      IF read = "calculate_subject_average" THEN {}
                                      ELSE GradedSubjects(g, student_id, semester_id)),
                       <<student_id, semester_id, NullSubject>>,
                       MaskedDefaults(read, OverallDefaults(g, student_id, semester_id)))

\* lines 315-329: what the caller of recalculate_all_indicators observes. The
\* clauses for Student.DoesNotExist and Semester.DoesNotExist log and fall
\* off the end of the method, which returns None as a completed
\* recalculation does; any other exception is logged and raised again
CallerSees(outcome) == IF outcome = "error" THEN "raised" ELSE "returned"

(***************************************************************************)
(* The change trigger (analytics/signals.py).                              *)
(***************************************************************************)
\* _recalculate_performance: the recalculation in its own transaction, every
\* exception caught and logged
\* fault variant of Logged: the exception is not caught, it leaves the
\* callback unlogged
Reraised(ind, r) ==
    [outcome |-> r.outcome, ind |-> IF r.outcome = "ok" THEN r.ind ELSE ind,
     logged |-> FALSE, raised |-> r.outcome = "error"]

\* lines 101-105: an exception is logged by logger.error and goes no further,
\* the transaction rolled back
Logged(ind, r) ==
    [outcome |-> r.outcome, ind |-> IF r.outcome = "ok" THEN r.ind ELSE ind,
     logged |-> r.outcome = "error", raised |-> FALSE]

_recalculate_performance(g, ind, student_id, semester_id) ==
    Logged(ind, recalculate_all_indicators(g, ind, student_id, semester_id))

\* the callbacks transaction.on_commit queued, run in the order queued once
\* the transaction has committed; queue is a sequence of <<student, semester>>,
\* r the result of its first callback. A callback that raises ends the run:
\* the exception leaves the commit and the callbacks behind it are dropped
RECURSIVE RunCommitHooks(_, _, _)
RECURSIVE ThenRunRest(_, _, _)
LogBefore(entry, rest) ==
    [ind |-> rest.ind, log |-> <<entry>> \o rest.log, raised |-> rest.raised]

ThenRunRest(g, queue, r) ==
    LogBefore([student |-> Head(queue)[1], semester |-> Head(queue)[2],
               outcome |-> r.outcome, logged |-> r.logged],
              IF r.raised THEN [ind |-> r.ind, log |-> <<>>, raised |-> TRUE]
              ELSE RunCommitHooks(g, r.ind, Tail(queue)))

RunCommitHooks(g, ind, queue) ==
    IF queue = <<>> THEN [ind |-> ind, log |-> <<>>, raised |-> FALSE]
    ELSE ThenRunRest(g, queue,
                     _recalculate_performance(g, ind, Head(queue)[1], Head(queue)[2]))

\* fault variant of trigger_performance_calculation: the callback is given
\* the subject of the grade in the place of its semester
trigger_with_subject(instance) == <<<<instance[1], instance[2]>>>>

\* trigger_performance_calculation_on_save / _on_delete: one callback per
\* signal, for the (student, semester) of the instance
trigger_performance_calculation(instance) == <<<<instance[1], instance[3]>>>>

(***************************************************************************)
(* The grade write paths (grades/views.py, grades/serializers.py), each    *)
(* request served to its end: validation, the write, the commit and the    *)
(* callbacks the commit runs.                                              *)
(***************************************************************************)
\* GradeSerializer.validate: an active student and no other grade of the triple
GradeValid(g, triple, exclude) ==
    /\ triple[1] \in DOMAIN student
    /\ student[triple[1]].is_active
    /\ triple \notin (DOMAIN g \ exclude)

Insert(g, triple, value) ==
    [t \in DOMAIN g \cup {triple} |-> IF t = triple THEN value ELSE g[t]]

Remove(g, triple) == [t \in DOMAIN g \ {triple} |-> g[t]]

\* the record of a served request: the triples of the grades it wrote or
\* deleted, and the recalculations its commit ran
Served(op, status, triples, log, again) ==
    /\ nreq' = nreq + 1
    /\ last' = [op |-> op, status |-> status, triples |-> triples,
                recalcs |-> log, repeated |-> again]

\* the grade table g is committed and the callbacks of the commit have run,
\* with the result r; an exception that left a callback reaches the view,
\* which answers 500
Committed(op, status, triples, g, r) ==
    /\ grades' = g
    /\ indicators' = r.ind
    /\ Served(op, IF r.raised THEN 500 ELSE status, triples, r.log, FALSE)

\* POST /api/grades/
perform_create(triple, value) ==
    /\ nreq < MaxRequests
    /\ IF GradeValid(grades, triple, {})
       THEN Committed("create", 201, <<triple>>, Insert(grades, triple, value),
                      RunCommitHooks(Insert(grades, triple, value), indicators,
                                     trigger_performance_calculation(triple)))
       ELSE /\ UNCHANGED <<grades, indicators>>
            /\ Served("create", 400, <<>>, <<>>, FALSE)
    /\ UNCHANGED <<dirVars, extra, twice, concVars, result>>

\* PUT /api/grades/{id}/: the grade of triple `old` becomes `new` with `value`
perform_update(old, new, value) ==
    /\ nreq < MaxRequests
    /\ old \in DOMAIN grades
    /\ IF GradeValid(grades, new, {old})
       THEN Committed("update", 200, <<new>>, Insert(Remove(grades, old), new, value),
                      RunCommitHooks(Insert(Remove(grades, old), new, value), indicators,
                                     trigger_performance_calculation(new)))
       ELSE /\ UNCHANGED <<grades, indicators>>
            /\ Served("update", 400, <<>>, <<>>, FALSE)
    /\ UNCHANGED <<dirVars, extra, twice, concVars, result>>

\* DELETE /api/grades/{id}/
perform_destroy(triple) ==
    /\ nreq < MaxRequests
    /\ triple \in DOMAIN grades
    /\ Committed("delete", 204, <<triple>>, Remove(grades, triple),
                 RunCommitHooks(Remove(grades, triple), indicators,
                                trigger_performance_calculation(triple)))
    /\ UNCHANGED <<dirVars, extra, twice, concVars, result>>

\* fault variant of soft_delete: the student row is deleted
hard_delete(st, student_id) == [s \in DOMAIN st \ {student_id} |-> st[s]]

\* StudentViewSet.perform_destroy: an active student is saved inactive
soft_delete(st, student_id) ==
    IF st[student_id].is_active
    THEN [st EXCEPT ![student_id].is_active = FALSE]
    ELSE st

\* DELETE /api/students/{id}/
destroy_student(student_id) ==
    /\ nreq < MaxRequests
    /\ student' = soft_delete(student, student_id)
    /\ Served("delete_student", 204, <<>>, <<>>, FALSE)
    /\ UNCHANGED <<subject, semester, roster, grades, indicators, extra, twice,
                   concVars, result>>

\* the payloads of POST /api/grades/bulk-create/: items are <<triple, value>>
BulkItems    == Triples \X BulkValues
BulkPayloads == UNION {[1..n -> BulkItems] : n \in BulkSizes}

RECURSIVE InsertAll(_, _)
InsertAll(g, items) ==
    IF items = <<>> THEN g
    ELSE InsertAll(Insert(g, Head(items)[1], Head(items)[2]), Tail(items))

RECURSIVE HooksOf(_)
HooksOf(items) ==
    IF items = <<>> THEN <<>>
    ELSE trigger_performance_calculation(Head(items)[1]) \o HooksOf(Tail(items))

\* fault variant of BulkValid: only the first item of the payload is
\* validated
FirstItemValid(g, items) ==
    /\ Head(items)[2] >= 0 /\ Head(items)[2] <= 2000
    /\ GradeValid(g, Head(items)[1], {})

\* BulkGradeItemSerializer.validate_value: a value from 0 to 20
ValueValid(value) == value >= 0 /\ value <= 2000

\* BulkGradeItemSerializer on every item, then the check for triples
\* repeated inside the payload
BulkValid(g, items) ==
    /\ \A i \in 1..Len(items) : ValueValid(items[i][2])
    /\ \A i \in 1..Len(items) : GradeValid(g, items[i][1], {})
    /\ \A i, j \in 1..Len(items) : i # j => items[i][1] # items[j][1]

bulk_create(items) ==
    /\ nreq < MaxRequests
    /\ IF BulkValid(grades, items)
       THEN Committed("bulk", 201, [i \in 1..Len(items) |-> items[i][1]],
                      InsertAll(grades, items),
                      RunCommitHooks(InsertAll(grades, items), indicators, HooksOf(items)))
       ELSE /\ UNCHANGED <<grades, indicators>>
            /\ Served("bulk", 400, <<>>, <<>>, FALSE)
    /\ UNCHANGED <<dirVars, extra, twice, concVars, result>>

\* the call has returned r (or raised, the table then being as it was)
Returned(student_id, semester_id, r) ==
    /\ indicators' = r.ind
    /\ Served("recalculate", 0, <<>>,
              <<[student |-> student_id, semester |-> semester_id,
                 outcome |-> r.outcome, caller |-> CallerSees(r.outcome)]>>,
              /\ last.recalcs # <<>>
              /\ last.recalcs[Len(last.recalcs)].student = student_id
              /\ last.recalcs[Len(last.recalcs)].semester = semester_id)

\* the call during which a read failed has returned r (or raised)
FaultReturned(student_id, semester_id, read, r) ==
    /\ indicators' = r.ind
    /\ Served("recalculate_fault", 0, <<>>,
              <<[student |-> student_id, semester |-> semester_id,
                 outcome |-> r.outcome, caller |-> CallerSees(r.outcome),
                 failed |-> read]>>,
              FALSE)

\* a direct call of PerformanceCalculator.recalculate_all_indicators, as the
\* tests make it
Recalculate(student_id, semester_id) ==
    /\ nreq < MaxRequests
    /\ Returned(student_id, semester_id,
                recalculate_all_indicators(grades, indicators, student_id, semester_id))
    /\ UNCHANGED <<grades, extra, twice, dirVars, concVars, result>>

\* a direct call during which one read of the storage fails
RecalculateUnderFault(student_id, semester_id, read, aborts) ==
    /\ nreq < MaxRequests
    /\ ReadReached(grades, student_id, semester_id, read)
    /\ FaultReturned(student_id, semester_id, read,
                     recalculate_with_failing_read(grades, indicators, student_id,
                                                   semester_id, read, aborts))
    /\ UNCHANGED <<grades, extra, twice, dirVars, concVars, result>>

Threads == {1, 2}

NoRequest == [kind |-> "none", items |-> <<>>, gone |-> FALSE]
NoResult  == [fn |-> "none", value |-> None]
NoLast    == [op |-> "none", status |-> 0, triples |-> <<>>, recalcs |-> <<>>,
              repeated |-> FALSE]

\* an empty database; the students enumerate in primary-key order
InitData ==
    /\ student = InitStudent
    /\ subject = InitSubject
    /\ semester = InitSemester
    /\ roster = <<1, 2>>
    /\ grades = <<>>
    /\ indicators = <<>>
    /\ extra = <<>>
    /\ twice = {}
    /\ nreq = 0
    /\ last = NoLast

InitThreads ==
    /\ started = 0
    /\ pc = [t \in Threads |-> "idle"]
    /\ req = [t \in Threads |-> NoRequest]
    /\ idx = [t \in Threads |-> 0]
    /\ txn = [t \in Threads |-> "none"]
    /\ pend = [t \in Threads |-> <<>>]
    /\ hooks = [t \in Threads |-> <<>>]
    /\ ret = [t \in Threads |-> "none"]
    /\ cur = [t \in Threads |-> None]
    /\ rtodo = [t \in Threads |-> <<>>]
    /\ ravg = [t \in Threads |-> None]
    /\ rover = [t \in Threads |-> None]
    /\ wbuf = [t \in Threads |-> <<>>]
    /\ events = [t \in Threads |-> <<>>]
    /\ invoked = [t \in Threads |-> <<>>]
    /\ outcomes = [t \in Threads |-> <<>>]

Init == InitData /\ InitThreads /\ result = NoResult

Next ==
    \/ \E t \in Triples, v \in GradeValues : perform_create(t, v)
    \/ \E old, new \in Triples, v \in GradeValues : perform_update(old, new, v)
    \/ \E t \in Triples : perform_destroy(t)
    \/ \E items \in BulkPayloads : bulk_create(items)
    \/ \E s \in RequestedStudents, m \in RequestedSemesters : Recalculate(s, m)
    \/ \E s \in Students : destroy_student(s)

Spec == Init /\ [][Next]_vars

\* the same requests on a storage whose reads can fail
NextFault ==
    \/ Next
    \/ \E s \in Students, m \in Semesters, read \in FailingReads, aborts \in BOOLEAN :
          RecalculateUnderFault(s, m, read, aborts)

SpecFault == Init /\ [][NextFault]_vars

(***************************************************************************)
(* The same requests served by concurrent workers: each thread takes one   *)
(* database statement per step.  The database is taken to isolate          *)
(* transactions at READ COMMITTED: a statement reads what is committed and *)
(* what its own transaction wrote, and a write of a row (or of a unique    *)
(* key) that another open transaction wrote waits for that transaction.   *)
(***************************************************************************)
MaxConcRequests == 2

\* the grades the concurrent requests are about: one student, two subjects
\* in the first semester and one in the second
ConcTriples  == {<<1, 1, 1>>, <<1, 2, 1>>, <<1, 1, 2>>}

\* the updates: a new value for a grade, or the grade of the first subject
\* made a grade of the second
ConcUpdates  == {<<k, k>> : k \in ConcTriples} \cup {<<<<1, 1, 1>>, <<1, 2, 1>>>>}

\* bulk payloads of these triples and of the inactive student's, their items
\* ordered by semester and subject; the value out of range and the second
\* item of a triple come last
Before(a, b) == a[3] < b[3] \/ (a[3] = b[3] /\ a[2] < b[2])
ConcPayloads ==
    {items \in BulkPayloads :
        /\ \A i \in 1..Len(items) : items[i][1] \in ConcTriples \cup {<<2, 1, 1>>}
        /\ \A i, j \in 1..Len(items) :
              i < j => /\ Before(items[i][1], items[j][1]) \/ items[i] = items[j]
                       /\ ValueValid(items[i][2])}

RecalcPcs == {"r_load", "r_avg", "r_upsert", "r_overall", "r_get", "r_finish"}

\* the uncommitted writes p of a transaction laid over the table g; a pending
\* None is a deleted row
Apply(g, p) ==
    [k \in (DOMAIN g \cup DOMAIN p) \ {d \in DOMAIN p : p[d] = None} |->
        IF k \in DOMAIN p THEN p[k][1] ELSE g[k]]

\* the Grade table as the statements of thread t read it
View(t) == Apply(grades, pend[t])

\* another open transaction holds the row lock of the grade
Locked(t, triple) == \E u \in Threads \ {t} : triple \in DOMAIN pend[u]

\* another open transaction holds the row lock of the indicator
IndLocked(t, key) == \E u \in Threads \ {t} : key \in DOMAIN wbuf[u]

\* fault variant of on_commit: the callback is run at once, whatever the
\* state of the transaction
on_commit_immediately(in_atomic, queue, callback) ==
    [hooks |-> queue, now |-> <<callback>>]

\* transaction.on_commit(callback): queued while a transaction is open, run
\* at once in autocommit mode
on_commit(in_atomic, queue, callback) ==
    IF in_atomic THEN [hooks |-> Append(queue, callback), now |-> <<>>]
    ELSE [hooks |-> queue, now |-> <<callback>>]

\* fault variant of atomic_write: the write is committed by itself
autocommit_write(ind, buf, key, row) ==
    [ind |-> Insert(ind, key, row), buf |-> buf]

\* a write of an indicator row under @transaction.atomic: it stays in the
\* transaction's buffer until the commit
atomic_write(ind, buf, key, row) ==
    [ind |-> ind, buf |-> Insert(buf, key, row)]

\* post_save / post_delete of the grade `triple`, received by
\* trigger_performance_calculation_on_save / _on_delete; the thread goes on
\* at `after` once the callback, if it runs now, has returned
Signal(t, triple, in_atomic, after) ==
    LET r == on_commit(in_atomic, hooks[t], trigger_performance_calculation(triple)[1])
    IN  /\ events' = [events EXCEPT ![t] = Append(@, <<triple[1], triple[3]>>)]
        /\ hooks' = [hooks EXCEPT ![t] = r.hooks]
        /\ IF r.now = <<>>
           THEN /\ pc' = [pc EXCEPT ![t] = after]
                /\ UNCHANGED <<cur, ret>>
           ELSE /\ pc' = [pc EXCEPT ![t] = "r_load"]
                /\ cur' = [cur EXCEPT ![t] = Some(r.now[1])]
                /\ ret' = [ret EXCEPT ![t] = after]

\* a thread takes up a request: get_object and the serializer's validation
Start(t, kind, items, found, valid, first, opens) ==
    /\ pc[t] = "idle"
    /\ started < MaxConcRequests
    /\ found
    /\ started' = started + 1
    /\ req' = [req EXCEPT ![t] = [kind |-> kind, items |-> items, gone |-> FALSE]]
    /\ pc' = [pc EXCEPT ![t] = IF valid THEN first ELSE "done"]
    /\ txn' = [txn EXCEPT ![t] = IF valid /\ opens THEN "open" ELSE "none"]
    /\ idx' = [idx EXCEPT ![t] = 1]
    /\ UNCHANGED <<dirVars, extra, twice, seqVars, grades, indicators, pend, hooks, ret, cur, rtodo,
                   ravg, rover, wbuf, events, invoked, outcomes, result>>

\* POST /api/grades/
StartCreate(t, triple, value) ==
    Start(t, "create", <<<<triple, value>>>>, TRUE,
          GradeValid(grades, triple, {}), "c_insert", FALSE)

\* PUT /api/grades/{id}/: the grade of triple `old` is to become `new` with
\* `value`; the second item keeps the triple of the row the request holds
StartUpdate(t, old, new, value) ==
    Start(t, "update", <<<<new, value>>, <<old, value>>>>, old \in DOMAIN grades,
          GradeValid(grades, new, {old}), "u_save", FALSE)

\* DELETE /api/grades/{id}/
StartDelete(t, triple) ==
    Start(t, "delete", <<<<triple, 0>>>>, triple \in DOMAIN grades, TRUE, "d_delete", FALSE)

\* POST /api/grades/bulk-create/: validation, then `with transaction.atomic()`
StartBulk(t, items) ==
    Start(t, "bulk", items, TRUE, BulkValid(grades, items), "b_insert", TRUE)

\* fault variant of UniqueViolation: the table has no unique index
NoUniqueIndex(g, triple) == FALSE

\* grades/models.py line 54, unique_together of Grade: the unique index
\* refuses the INSERT of a row whose (student, subject, semester) a row of
\* the table has
UniqueViolation(g, triple) == triple \in DOMAIN g

\* serializer.save() of perform_create: the INSERT, committed at once, then
\* post_save; a grade of the triple committed since the validation is an
\* IntegrityError. A row that the index lets in beside a row of its triple
\* is a second row of the triple
CreateInsert(t) ==
    LET triple == req[t].items[1][1]
    IN  /\ pc[t] = "c_insert"
        /\ ~Locked(t, triple)
        /\ IF UniqueViolation(grades, triple)
           THEN /\ pc' = [pc EXCEPT ![t] = "done"]
                /\ UNCHANGED <<grades, twice, events, hooks, cur, ret>>
           ELSE /\ IF triple \in DOMAIN grades
                   THEN twice' = twice \cup {triple} /\ UNCHANGED grades
                   ELSE /\ grades' = Insert(grades, triple, req[t].items[1][2])
                        /\ UNCHANGED twice
                /\ Signal(t, triple, FALSE, "done")
        /\ UNCHANGED <<dirVars, extra, seqVars, indicators, started, req, idx, txn, pend, rtodo,
                       ravg, rover, wbuf, invoked, outcomes, result>>

\* the requests of the other threads that hold the row of triple `old` by
\* its primary key hold the same row once it has become `new`
Repointed(t, old, new) ==
    [u \in Threads |->
        IF /\ u # t
           /\ req[u].kind \in {"update", "delete"}
           /\ ~req[u].gone
           /\ req[u].items[Len(req[u].items)][1] = old
        THEN [req[u] EXCEPT !.items[Len(req[u].items)][1] = new]
        ELSE req[u]]

\* serializer.save() of perform_update: UPDATE of the row, or, the row being
\* gone, its INSERT (Model.save), committed at once, then post_save; another
\* row of the new triple is an IntegrityError
UpdateSave(t) ==
    LET new == req[t].items[1][1]
        old == req[t].items[2][1]
    IN  /\ pc[t] = "u_save"
        /\ ~Locked(t, old)
        /\ ~Locked(t, new)
        /\ IF UniqueViolation(grades, new) /\ (req[t].gone \/ new # old)
           THEN /\ pc' = [pc EXCEPT ![t] = "done"]
                /\ UNCHANGED <<grades, twice, req, events, hooks, cur, ret>>
           ELSE /\ IF new \in DOMAIN grades /\ (req[t].gone \/ new # old)
                   THEN /\ twice' = twice \cup {new}
                        /\ grades' = IF req[t].gone THEN grades ELSE Remove(grades, old)
                   ELSE /\ grades' = Insert(IF req[t].gone THEN grades
                                            ELSE Remove(grades, old),
                                            new, req[t].items[1][2])
                        /\ UNCHANGED twice
                /\ req' = IF req[t].gone THEN req ELSE Repointed(t, old, new)
                /\ Signal(t, new, FALSE, "done")
        /\ UNCHANGED <<dirVars, extra, seqVars, indicators, started, idx, txn, pend, rtodo,
                       ravg, rover, wbuf, invoked, outcomes, result>>

\* instance.delete() of perform_destroy: Collector.delete opens a
\* transaction, deletes the row if it is still there and sends post_delete
DeleteRow(t) ==
    LET triple == req[t].items[1][1]
    IN  /\ pc[t] = "d_delete"
        /\ ~Locked(t, triple)
        /\ txn' = [txn EXCEPT ![t] = "open"]
        /\ pend' = [pend EXCEPT ![t] = IF req[t].gone THEN <<>>
                                      ELSE [k \in {triple} |-> None]]
        /\ Signal(t, triple, TRUE, "commit")
        /\ UNCHANGED <<dirVars, extra, twice, seqVars, grades, indicators, started, req, idx, rtodo,
                       ravg, rover, wbuf, invoked, outcomes, result>>

\* Grade.objects.create of bulk_create, inside the transaction: an
\* IntegrityError rolls the transaction back and discards its callbacks
BulkInsert(t) ==
    LET item == req[t].items[idx[t]]
    IN  /\ pc[t] = "b_insert"
        /\ ~Locked(t, item[1])
        /\ IF UniqueViolation(View(t), item[1])
           THEN /\ pend' = [pend EXCEPT ![t] = <<>>]
                /\ hooks' = [hooks EXCEPT ![t] = <<>>]
                /\ txn' = [txn EXCEPT ![t] = "rolledback"]
                /\ pc' = [pc EXCEPT ![t] = "done"]
                /\ UNCHANGED <<idx, events, cur, ret>>
           ELSE /\ pend' = [pend EXCEPT ![t] = Insert(@, item[1], Some(item[2]))]
                /\ idx' = [idx EXCEPT ![t] = @ + 1]
                /\ Signal(t, item[1], TRUE,
                          IF idx[t] = Len(req[t].items) THEN "commit" ELSE "b_insert")
                /\ UNCHANGED txn
        /\ UNCHANGED <<dirVars, extra, twice, seqVars, grades, indicators, started, req, rtodo,
                       ravg, rover, wbuf, invoked, outcomes, result>>

\* the commit of the open transaction; a row it deleted is gone for the
\* requests of the other threads that had read it
Commit(t) ==
    /\ pc[t] = "commit"
    /\ grades' = Apply(grades, pend[t])
    /\ twice' = twice \cup {k \in DOMAIN pend[t] \cap DOMAIN grades : pend[t][k] # None}
    /\ req' = [u \in Threads |->
                  IF /\ u # t
                     /\ req[u].kind \in {"update", "delete"}
                     /\ req[u].items[Len(req[u].items)][1] \in DOMAIN pend[t]
                     /\ pend[t][req[u].items[Len(req[u].items)][1]] = None
                  THEN [req[u] EXCEPT !.gone = TRUE]
                  ELSE req[u]]
    /\ pend' = [pend EXCEPT ![t] = <<>>]
    /\ txn' = [txn EXCEPT ![t] = "committed"]
    /\ pc' = [pc EXCEPT ![t] = "hooks"]
    /\ UNCHANGED <<dirVars, extra, seqVars, indicators, started, idx, hooks, ret, cur, rtodo,
                   ravg, rover, wbuf, events, invoked, outcomes, result>>

\* connection.run_and_clear_commit_hooks: the queued callbacks, one by one
RunHook(t) ==
    /\ pc[t] = "hooks"
    /\ IF hooks[t] = <<>>
       THEN /\ pc' = [pc EXCEPT ![t] = "done"]
            /\ UNCHANGED <<hooks, cur, ret>>
       ELSE /\ pc' = [pc EXCEPT ![t] = "r_load"]
            /\ cur' = [cur EXCEPT ![t] = Some(Head(hooks[t]))]
            /\ hooks' = [hooks EXCEPT ![t] = Tail(@)]
            /\ ret' = [ret EXCEPT ![t] = "hooks"]
    /\ UNCHANGED <<dirVars, extra, twice, seqVars, grades, indicators, started, req, idx, txn, pend,
                   rtodo, ravg, rover, wbuf, events, invoked, outcomes, result>>

\* the subjects of a set, in ascending order
RECURSIVE Ascending(_)
Ascending(S) ==
    IF S = {} THEN <<>>
    ELSE LET c == CHOOSE x \in S : \A y \in S : x <= y
         IN  <<c>> \o Ascending(S \ {c})

\* the recalculation of thread t has ended with `outcome`: the transaction of
\* _recalculate_performance is over and the thread goes on where it was
RecalcEnds(t, outcome, discarded) ==
    /\ outcomes' = [outcomes EXCEPT ![t] =
                       Append(@, [outcome |-> outcome, rolled_back |-> discarded])]
    /\ wbuf' = [wbuf EXCEPT ![t] = <<>>]
    /\ rtodo' = [rtodo EXCEPT ![t] = <<>>]
    /\ ravg' = [ravg EXCEPT ![t] = None]
    /\ rover' = [rover EXCEPT ![t] = None]
    /\ cur' = [cur EXCEPT ![t] = None]
    /\ pc' = [pc EXCEPT ![t] = ret[t]]

\* recalculate_all_indicators, lines 252-259: the student, the semester and
\* the student's grades of the semester are read
RecalcLoad(t) ==
    LET student_id == cur[t][1][1]
        semester_id == cur[t][1][2]
        todo == Ascending(GradedSubjects(View(t), student_id, semester_id))
    IN  /\ pc[t] = "r_load"
        /\ invoked' = [invoked EXCEPT ![t] = Append(@, cur[t][1])]
        /\ IF student_id \notin DOMAIN student \/ semester_id \notin DOMAIN semester
           THEN /\ RecalcEnds(t, "notfound", {})
           ELSE /\ rtodo' = [rtodo EXCEPT ![t] = todo]
                /\ pc' = [pc EXCEPT ![t] = IF todo = <<>> THEN "r_overall" ELSE "r_avg"]
                /\ UNCHANGED <<outcomes, wbuf, ravg, rover, cur>>
        /\ UNCHANGED <<dirVars, extra, twice, seqVars, grades, indicators, started, req, idx, txn, pend,
                       hooks, ret, events, result>>

\* lines 263-267: calculate_subject_average reads the grade again
RecalcSubjectAverage(t) ==
    /\ pc[t] = "r_avg"
    /\ ravg' = [ravg EXCEPT ![t] =
                   calculate_subject_average(View(t), cur[t][1][1], Head(rtodo[t]),
                                             cur[t][1][2])]
    /\ pc' = [pc EXCEPT ![t] = "r_upsert"]
    /\ UNCHANGED <<dirVars, extra, twice, seqVars, grades, indicators, started, req, idx, txn, pend,
                   hooks, ret, cur, rtodo, rover, wbuf, events, invoked, outcomes, result>>

\* lines 268-273: the subject indicator is upserted with the average read
RecalcUpsertSubject(t) ==
    LET key == <<cur[t][1][1], cur[t][1][2], Head(rtodo[t])>>
        row == update_or_create(Apply(indicators, [k \in DOMAIN wbuf[t] |-> Some(wbuf[t][k])]),
                                key, [average |-> ravg[t][1]])[key]
        w   == atomic_write(indicators, wbuf[t], key, row)
    IN  /\ pc[t] = "r_upsert"
        /\ IF ravg[t] = None
           THEN UNCHANGED <<indicators, wbuf>>
           ELSE /\ ~IndLocked(t, key)
                /\ indicators' = w.ind
                /\ wbuf' = [wbuf EXCEPT ![t] = w.buf]
        /\ rtodo' = [rtodo EXCEPT ![t] = Tail(@)]
        /\ ravg' = [ravg EXCEPT ![t] = None]
        /\ pc' = [pc EXCEPT ![t] = IF Tail(rtodo[t]) = <<>> THEN "r_overall" ELSE "r_avg"]
        /\ UNCHANGED <<dirVars, extra, twice, seqVars, grades, started, req, idx, txn, pend, hooks, ret,
                       cur, rover, events, invoked, outcomes, result>>

\* lines 276-303: the overall average, the progression, the class rank and
\* the class statistics are computed from the grades read now
RecalcOverall(t) ==
    /\ pc[t] = "r_overall"
    /\ rover' = [rover EXCEPT ![t] = OverallDefaults(View(t), cur[t][1][1], cur[t][1][2])]
    /\ pc' = [pc EXCEPT ![t] = IF rover'[t] = None THEN "r_finish" ELSE "r_get"]
    /\ UNCHANGED <<dirVars, extra, twice, seqVars, grades, indicators, started, req, idx, txn, pend,
                   hooks, ret, cur, rtodo, ravg, wbuf, events, invoked, outcomes, result>>

\* lines 303-313, update_or_create of the overall indicator: the row of the
\* key is selected for update. unique_together does not hold rows whose
\* subject is NULL apart (NULLs are distinct in a unique index), so the key
\* can have two rows, and get() then raises MultipleObjectsReturned. A row
\* found is locked and updated; with no row found, the INSERT comes next
RecalcGetOverall(t) ==
    LET key == <<cur[t][1][1], cur[t][1][2], NullSubject>>
        row == update_or_create(indicators, key, rover[t][1])[key]
        w   == atomic_write(indicators, wbuf[t], key, row)
    IN  /\ pc[t] = "r_get"
        /\ IF key \in DOMAIN extra
           THEN RecalcEnds(t, "error", DOMAIN wbuf[t])
           ELSE IF key \notin DOMAIN indicators
           THEN /\ pc' = [pc EXCEPT ![t] = "r_finish"]
                /\ UNCHANGED <<wbuf, rtodo, ravg, rover, cur, outcomes>>
           ELSE IF ~Storable(rover[t][1])
           THEN /\ ~IndLocked(t, key)
                /\ RecalcEnds(t, "error", DOMAIN wbuf[t])
           ELSE /\ ~IndLocked(t, key)
                /\ wbuf' = [wbuf EXCEPT ![t] = w.buf]
                /\ pc' = [pc EXCEPT ![t] = "r_finish"]
                /\ UNCHANGED <<rtodo, ravg, rover, cur, outcomes>>
        /\ UNCHANGED <<dirVars, extra, twice, seqVars, grades, indicators, started, req, idx, txn,
                       pend, hooks, ret, events, invoked, result>>

\* lines 304-329: with no row found, the overall indicator is inserted; then
\* the transaction commits. A value the row cannot hold raises, which rolls
\* the transaction back. The INSERT meets no unique key: when another
\* transaction has committed a row of the key since the row was looked for,
\* the row inserted is the second of the key
RecalcFinish(t) ==
    LET key == <<cur[t][1][1], cur[t][1][2], NullSubject>>
        row == update_or_create(<<>>, key, rover[t][1])[key]
        w   == atomic_write(indicators, wbuf[t], key, row)
    IN  /\ pc[t] = "r_finish"
        /\ IF rover[t] = None \/ key \in DOMAIN wbuf[t]
           THEN /\ indicators' = Apply(indicators, [k \in DOMAIN wbuf[t] |-> Some(wbuf[t][k])])
                /\ UNCHANGED extra
                /\ RecalcEnds(t, "ok", {})
           ELSE IF ~Storable(rover[t][1])
           THEN /\ UNCHANGED <<indicators, extra>>
                /\ RecalcEnds(t, "error", DOMAIN wbuf[t])
           ELSE IF key \in DOMAIN indicators
           THEN /\ indicators' = Apply(indicators, [k \in DOMAIN wbuf[t] |-> Some(wbuf[t][k])])
                /\ extra' = Insert(extra, key, row)
                /\ RecalcEnds(t, "ok", {})
           ELSE /\ indicators' = Apply(w.ind, [k \in DOMAIN w.buf |-> Some(w.buf[k])])
                /\ UNCHANGED extra
                /\ RecalcEnds(t, "ok", {})
        /\ UNCHANGED <<dirVars, twice, seqVars, grades, started, req, idx, txn, pend, hooks,
                       ret, events, invoked, result>>

\* the response is sent and the thread is free for the next request
Respond(t) ==
    /\ pc[t] = "done"
    /\ pc' = [pc EXCEPT ![t] = "idle"]
    /\ req' = [req EXCEPT ![t] = NoRequest]
    /\ idx' = [idx EXCEPT ![t] = 0]
    /\ txn' = [txn EXCEPT ![t] = "none"]
    /\ ret' = [ret EXCEPT ![t] = "none"]
    /\ events' = [events EXCEPT ![t] = <<>>]
    /\ invoked' = [invoked EXCEPT ![t] = <<>>]
    /\ outcomes' = [outcomes EXCEPT ![t] = <<>>]
    /\ UNCHANGED <<dirVars, extra, twice, seqVars, grades, indicators, started, pend, hooks, cur, rtodo,
                   ravg, rover, wbuf, result>>

NextConc ==
    \/ \E t \in Threads, k \in ConcTriples, v \in GradeValues : StartCreate(t, k, v)
    \/ \E t \in Threads, u \in ConcUpdates, v \in GradeValues : StartUpdate(t, u[1], u[2], v)
    \/ \E t \in Threads, k \in ConcTriples : StartDelete(t, k)
    \/ \E t \in Threads, items \in ConcPayloads : StartBulk(t, items)
    \/ \E t \in Threads : CreateInsert(t)
    \/ \E t \in Threads : UpdateSave(t)
    \/ \E t \in Threads : DeleteRow(t)
    \/ \E t \in Threads : BulkInsert(t)
    \/ \E t \in Threads : Commit(t)
    \/ \E t \in Threads : RunHook(t)
    \/ \E t \in Threads : RecalcLoad(t)
    \/ \E t \in Threads : RecalcSubjectAverage(t)
    \/ \E t \in Threads : RecalcUpsertSubject(t)
    \/ \E t \in Threads : RecalcOverall(t)
    \/ \E t \in Threads : RecalcGetOverall(t)
    \/ \E t \in Threads : RecalcFinish(t)
    \/ \E t \in Threads : Respond(t)

\* the second student has been deleted (is_active = False) before
InitConc ==
    /\ student = [InitStudent EXCEPT ![2].is_active = FALSE]
    /\ subject = InitSubject
    /\ semester = InitSemester
    /\ roster = <<1, 2>>
    /\ grades = <<>>
    /\ indicators = <<>>
    /\ extra = <<>>
    /\ twice = {}
    /\ nreq = 0
    /\ last = NoLast
    /\ InitThreads
    /\ result = NoResult

SpecConc == InitConc /\ [][NextConc]_vars

(***************************************************************************)
(* The calculators applied to grades and coefficients drawn from bounded   *)
(* sets (SpecCalc).                                                        *)
(***************************************************************************)
CalcValues       == {0, 10, 1400, 1600, 2000}
\* the validators of Subject.coefficient (0.01 to 9.99) run in forms and
\* serializers only: a row saved through the ORM can hold 0
CalcCoefficients == {0, 1, 150, 200, 999}
CalcTriples      == {<<1, c, 1>> : c \in Subjects}
\* an overall indicator stored by an earlier recalculation
EarlierOverall ==
    [k \in {<<1, 1, NullSubject>>} |->
        [average |-> 1250, standard_deviation |-> Some(50),
         progression_percentage |-> Some(-400), class_rank |-> Some(2)]]

\* the same with a subject indicator of the pair, the overall indicators of
\* another student and of another semester, and another student's subject
\* indicator
EarlierRows ==
    [k \in {<<1, 1, NullSubject>>, <<1, 1, 2>>, <<2, 1, NullSubject>>,
            <<1, 2, NullSubject>>, <<2, 1, 1>>} |->
        IF k = <<1, 1, NullSubject>> THEN EarlierOverall[k]
        ELSE [average |-> 1100, standard_deviation |-> None,
              progression_percentage |-> None,
              class_rank |-> IF k[3] = NullSubject THEN Some(1) ELSE None]]

InitCalc ==
    /\ student = InitStudent
    /\ subject \in [Subjects -> [coefficient : CalcCoefficients]]
    /\ semester = InitSemester
    /\ roster = <<1, 2>>
    /\ grades \in UNION {[T -> CalcValues] : T \in SUBSET CalcTriples}
    /\ indicators \in {<<>>, EarlierOverall, EarlierRows}
    /\ extra = <<>>
    /\ twice = {}
    /\ nreq = 0
    /\ last = NoLast
    /\ InitThreads
    /\ result = NoResult

ApplyRecalculateGives(r) ==
    /\ indicators' = r.ind
    /\ result' = [fn |-> "recalculate_all_indicators", value |-> Some(r.outcome)]

ApplyOverallAverage ==
    /\ result = NoResult
    /\ result' = [fn |-> "calculate_overall_average",
                  value |-> calculate_overall_average(grades, 1, 1)]
    /\ UNCHANGED <<dirVars, extra, twice, seqVars, concVars, grades, indicators>>

ApplySubjectAverage(subject_id) ==
    /\ result = NoResult
    /\ result' = [fn |-> "calculate_subject_average",
                  value |-> calculate_subject_average(grades, 1, subject_id, 1),
                  args |-> <<subject_id>>]
    /\ UNCHANGED <<dirVars, extra, twice, seqVars, concVars, grades, indicators>>

\* recalculate_all_indicators called on the drawn tables
ApplyRecalculate ==
    /\ result = NoResult
    /\ ApplyRecalculateGives(recalculate_all_indicators(grades, indicators, 1, 1))
    /\ UNCHANGED <<dirVars, extra, twice, seqVars, concVars, grades>>

NextCalc ==
    \/ ApplyOverallAverage
    \/ ApplyRecalculate
    \/ \E c \in Subjects : ApplySubjectAverage(c)

SpecCalc == InitCalc /\ [][NextCalc]_vars

(***************************************************************************)
(* _calculate_class_rank applied to every student of drawn classes, on one *)
(* grade table (SpecRank). The Student model declares no ordering: the     *)
(* order in which the classmates are enumerated is the database's, drawn   *)
(* here and the same for the calls made on one state of the tables.        *)
(***************************************************************************)
RankStudents == {1, 2, 3}
RankClasses  == {1, 2}
RankValues   == {10, 1400}
RankTriples  == {<<s, 1, 1>> : s \in RankStudents}

InitRank ==
    /\ student \in [RankStudents -> [class_assigned : RankClasses, is_active : BOOLEAN]]
    /\ subject = InitSubject
    /\ semester = InitSemester
    /\ roster \in {q \in [1..Cardinality(RankStudents) -> RankStudents] :
                      \A i, j \in DOMAIN q : q[i] = q[j] => i = j}
    /\ grades \in UNION {[T -> RankValues] : T \in SUBSET RankTriples}
    /\ indicators = <<>>
    /\ extra = <<>>
    /\ twice = {}
    /\ nreq = 0
    /\ last = NoLast
    /\ InitThreads
    /\ result = NoResult

\* line 296: class_rank = _calculate_class_rank(student_id, semester_id,
\* overall_avg), here for each student in turn
ApplyClassRank ==
    /\ result = NoResult
    /\ result' = [fn |-> "_calculate_class_rank",
                  value |-> [s \in RankStudents |->
                      _calculate_class_rank(grades, s, 1,
                                            calculate_overall_average(grades, s, 1))]]
    /\ UNCHANGED <<dirVars, extra, twice, seqVars, concVars, grades, indicators>>

\* line 299: class_stats = calculate_class_statistics(class id, semester_id)
ApplyClassStatistics(class_id) ==
    /\ result = NoResult
    /\ result' = [fn |-> "calculate_class_statistics",
                  value |-> calculate_class_statistics(grades, class_id, 1),
                  args |-> <<class_id>>]
    /\ UNCHANGED <<dirVars, extra, twice, seqVars, concVars, grades, indicators>>

NextRank ==
    \/ ApplyClassRank
    \/ \E c \in RankClasses : ApplyClassStatistics(c)

SpecRank == InitRank /\ [][NextRank]_vars

(***************************************************************************)
(* calculate_progression and the recalculation of one student over three   *)
(* semesters drawn with their academic years and distinct start dates      *)
(* (SpecProg). The student has grades in one subject, so the overall       *)
(* average of a semester is the grade's value.                             *)
(***************************************************************************)
ProgSemesters == {1, 2, 3}
ProgYears     == {1, 2}
ProgValues    == {0, 10, 1400, 1600}
ProgTriples   == {<<1, 1, m>> : m \in ProgSemesters}

InitProg ==
    /\ student = InitStudent
    /\ subject = InitSubject
    /\ semester \in {t \in [ProgSemesters ->
                              [academic_year : ProgYears,
                               start_date : 1..Cardinality(ProgSemesters)]] :
                        \A a, b \in ProgSemesters :
                            t[a].start_date = t[b].start_date => a = b}
    /\ roster = <<1, 2>>
    /\ grades \in UNION {[T -> ProgValues] : T \in SUBSET ProgTriples}
    /\ indicators = <<>>
    /\ extra = <<>>
    /\ twice = {}
    /\ nreq = 0
    /\ last = NoLast
    /\ InitThreads
    /\ result = NoResult

ApplyProgression(current_semester_id, previous_semester_id) ==
    /\ result = NoResult
    /\ result' = [fn |-> "calculate_progression",
                  value |-> calculate_progression(grades, 1, current_semester_id,
                                                  previous_semester_id),
                  args |-> <<current_semester_id, previous_semester_id>>]
    /\ UNCHANGED <<dirVars, extra, twice, seqVars, concVars, grades, indicators>>

RecalculateSemesterGives(semester_id, r) ==
    /\ indicators' = r.ind
    /\ result' = [fn |-> "recalculate_all_indicators", value |-> Some(r.outcome),
                  args |-> <<semester_id>>]

\* recalculate_all_indicators called for the student and one of the semesters
RecalculateSemester(semester_id) ==
    /\ result = NoResult
    /\ RecalculateSemesterGives(semester_id,
            recalculate_all_indicators(grades, indicators, 1, semester_id))
    /\ UNCHANGED <<dirVars, extra, twice, seqVars, concVars, grades>>

NextProg ==
    \/ \E cur_id, prev_id \in ProgSemesters : ApplyProgression(cur_id, prev_id)
    \/ \E m \in ProgSemesters : RecalculateSemester(m)

SpecProg == InitProg /\ [][NextProg]_vars

(***************************************************************************)
(* AnalyticsSummaryView.get over a drawn indicator table (SpecSummary):    *)
(* three active students, the third in a class of its own, overall rows    *)
(* of the first semester and of the first student's second semester with   *)
(* drawn averages, and a subject row. The averages of the response         *)
(* (overall_average, progression_rate) are floats and are not modelled.    *)
(***************************************************************************)
SummaryAverages == {999, 1000, 1200, 1400, 1467, 1600, 1800}
SummaryKeys     == {<<1, 1, NullSubject>>, <<2, 1, NullSubject>>,
                    <<3, 1, NullSubject>>, <<1, 2, NullSubject>>}
SummaryRow(a)   == [f \in Fields |-> IF f = "average" THEN a ELSE FieldDefault(f)]
\* the query parameters: absent, an id, or (student_id) a text that is not
\* digits, written -1
SummaryClassIds    == {None, Some(1), Some(2)}
SummarySemesterIds == {None, Some(1), Some(2)}
SummaryStudentIds  == {None, Some(1), Some(-1)}

\* lines 72-78: the active students the filters select
students_query(class_id, student_id) ==
    {s \in DOMAIN student :
        /\ student[s].is_active
        /\ class_id # None => student[s].class_assigned = class_id[1]
        /\ (student_id # None /\ student_id[1] >= 0) => s = student_id[1]}

\* lines 81-88: the overall indicators (subject__isnull=True) the filters
\* select; a student_id that is not digits is ignored
indicators_query(ind, class_id, semester_id, student_id) ==
    {k \in DOMAIN ind :
        /\ k[3] = NullSubject
        /\ class_id # None => student[k[1]].class_assigned = class_id[1]
        /\ semester_id # None => k[2] = semester_id[1]
        /\ (student_id # None /\ student_id[1] >= 0) => k[1] = student_id[1]}

\* fault variant of performance_distribution: good starts above 14
distribution_good_above_14(ind, q) ==
    [excellent |-> Cardinality({k \in q : ind[k].average >= 1600}),
     good      |-> Cardinality({k \in q : ind[k].average > 1400 /\ ind[k].average < 1600}),
     average   |-> Cardinality({k \in q : ind[k].average >= 1000 /\ ind[k].average < 1400}),
     poor      |-> Cardinality({k \in q : ind[k].average < 1000})]

\* lines 101-105 and 111-116: the four counts over the selected indicators
performance_distribution(ind, q) ==
    [excellent |-> Cardinality({k \in q : ind[k].average >= 1600}),
     good      |-> Cardinality({k \in q : ind[k].average >= 1400 /\ ind[k].average < 1600}),
     average   |-> Cardinality({k \in q : ind[k].average >= 1000 /\ ind[k].average < 1400}),
     poor      |-> Cardinality({k \in q : ind[k].average < 1000})]

InitSummary ==
    /\ student = [s \in RankStudents |->
                     [class_assigned |-> IF s = 3 THEN 2 ELSE 1, is_active |-> TRUE]]
    /\ subject = InitSubject
    /\ semester = InitSemester
    /\ roster = <<1, 2, 3>>
    /\ grades = <<>>
    /\ indicators \in
          {[k \in DOMAIN f \cup {<<1, 1, 1>>} |->
               IF k \in DOMAIN f THEN SummaryRow(f[k]) ELSE SummaryRow(1800)] :
             f \in UNION {[K -> SummaryAverages] : K \in SUBSET SummaryKeys}}
    /\ extra = <<>>
    /\ twice = {}
    /\ nreq = 0
    /\ last = NoLast
    /\ InitThreads
    /\ result = NoResult

\* lines 65-117: GET /api/analytics/summary/ with these query parameters
AnalyticsSummary(class_id, semester_id, student_id) ==
    /\ result = NoResult
    /\ result' = [fn |-> "summary",
                  value |-> [total_students |->
                                 Cardinality(students_query(class_id, student_id)),
                             performance_distribution |->
                                 performance_distribution(indicators,
                                     indicators_query(indicators, class_id,
                                                      semester_id, student_id))],
                  args |-> <<class_id, semester_id, student_id>>]
    /\ UNCHANGED <<dirVars, extra, twice, seqVars, concVars, grades, indicators>>

NextSummary ==
    \E c \in SummaryClassIds, m \in SummarySemesterIds, s \in SummaryStudentIds :
        AnalyticsSummary(c, m, s)

SpecSummary == InitSummary /\ [][NextSummary]_vars

(***************************************************************************)
(* Properties of the requests served one after the other (Spec).           *)
(***************************************************************************)
OverallKey(student_id, semester_id) == <<student_id, semester_id, NullSubject>>

\* the subject rows and the overall row of the pair hold the averages of g
AveragesStored(g, ind, student_id, semester_id) ==
    /\ \A c \in GradedSubjects(g, student_id, semester_id) :
          /\ <<student_id, semester_id, c>> \in DOMAIN ind
          /\ ind[<<student_id, semester_id, c>>].average = g[<<student_id, c, semester_id>>]
    /\ OverallKey(student_id, semester_id) \in DOMAIN ind
    /\ Some(ind[OverallKey(student_id, semester_id)].average)
           = calculate_overall_average(g, student_id, semester_id)

\* C1: once recalculate_all_indicators has completed for a student with at
\* least one grade in the semester, every graded subject has a subject
\* indicator whose average is the grade's value, and the overall indicator
\* holds the overall average, standard deviation, progression and class rank
\* the calculators return for the same grades.
C1_RecalculationStoresCalculatorValues ==
    \A i \in 1..Len(last.recalcs) :
        LET e == last.recalcs[i]
        IN  (e.outcome = "ok" /\ GradedSubjects(grades, e.student, e.semester) # {}) =>
                /\ AveragesStored(grades, indicators, e.student, e.semester)
                /\ Some(indicators[OverallKey(e.student, e.semester)])
                       = OverallDefaults(grades, e.student, e.semester)

\* a direct call completed for a student with grades in both semesters: the
\* overall row of the second semester has a progression and a rank
C1_Witness ==
    /\ last.op = "recalculate"
    /\ last.recalcs[1].outcome = "ok"
    /\ last.recalcs[1].semester = 2
    /\ GradedSubjects(grades, last.recalcs[1].student, 2) # {}
    /\ OverallKey(last.recalcs[1].student, 2) \in DOMAIN indicators
    /\ indicators[OverallKey(last.recalcs[1].student, 2)].progression_percentage # None
    /\ indicators[OverallKey(last.recalcs[1].student, 2)].class_rank = Some(1)

\* C3: after every served grade request, each stored overall indicator has
\* the class rank, standard deviation and progression that the calculators
\* compute from the current grades.
C3_EveryOverallIndicatorCurrent ==
    \A k \in DOMAIN indicators :
        k[3] = NullSubject =>
            LET now == OverallDefaults(grades, k[1], k[2])
            IN  /\ now # None
                /\ indicators[k].class_rank = now[1].class_rank
                /\ indicators[k].standard_deviation = now[1].standard_deviation
                /\ indicators[k].progression_percentage = now[1].progression_percentage

\* C4: when the only grade of a student in a semester has been deleted, the
\* recalculation the deletion triggers completes and no subject indicator of
\* the deleted grade's (student, semester, subject) is stored.
C4_NoSubjectIndicatorAfterDelete ==
    (/\ last.op = "delete"
     /\ GradedSubjects(grades, last.triples[1][1], last.triples[1][3]) = {}) =>
        /\ last.recalcs[1].outcome = "ok"
        /\ <<last.triples[1][1], last.triples[1][3], last.triples[1][2]>>
               \notin DOMAIN indicators

\* C5: a call of recalculate_all_indicators that follows a call for the same
\* (student, semester), nothing else having changed, leaves every indicator
\* row as the first call left it.
C5_RecalculationIdempotent ==
    [][(last'.op = "recalculate" /\ last'.repeated) => indicators' = indicators]_vars

\* the second of two calls in a row has completed with rows stored
C5_Witness ==
    /\ last.op = "recalculate"
    /\ last.repeated
    /\ last.recalcs[1].outcome = "ok"
    /\ OverallKey(last.recalcs[1].student, last.recalcs[1].semester) \in DOMAIN indicators
    /\ indicators[OverallKey(last.recalcs[1].student, last.recalcs[1].semester)].class_rank
           = Some(2)

\* C8: when a bulk create has committed several grades of one (student,
\* semester) and the recalculations it queued have run, the subject
\* indicators and the overall indicator of the pair hold the averages of the
\* committed grades.
C8_BulkLeavesFinalAverages ==
    (/\ last.op = "bulk"
     /\ last.status = 201
     /\ Len(last.triples) = 2
     /\ last.triples[1][1] = last.triples[2][1]
     /\ last.triples[1][3] = last.triples[2][3]) =>
        AveragesStored(grades, indicators, last.triples[1][1], last.triples[1][3])

(***************************************************************************)
(* Properties of the calculators (SpecCalc).                               *)
(***************************************************************************)
Abs(x) == IF x < 0 THEN -x ELSE x

\* C2: for a student with grades in the semester, calculate_overall_average
\* returns the quotient sum(value * coefficient) / sum(coefficient) rounded
\* to two decimals: no other number of two decimals is nearer to it.
C2_OverallAverageIsRoundedQuotient ==
    LET graded == GradedSubjects(grades, 1, 1)
        weighted == SumOver(graded, [c \in graded |->
                        grades[<<1, c, 1>>] * subject[c].coefficient])
        coefficients == SumOver(graded, [c \in graded |-> subject[c].coefficient])
    IN  (result.fn = "calculate_overall_average" /\ graded # {} /\ coefficients # 0) =>
            /\ result.value # None
            /\ 2 * Abs(result.value[1] * coefficients - weighted) <= coefficients

\* 16.00 with coefficient 2.00 and 14.00 with coefficient 1.50 gave 15.14
C2_Witness ==
    /\ result.fn = "calculate_overall_average"
    /\ subject[1].coefficient = 200 /\ subject[2].coefficient = 150
    /\ DOMAIN grades = CalcTriples
    /\ grades[<<1, 1, 1>>] = 1600 /\ grades[<<1, 2, 1>>] = 1400
    /\ result.value = Some(1514)

\* C14: when the overall average is not available (no grade of the student
\* in the semester, or coefficients that sum to zero), the recalculation
\* neither creates, nor modifies, nor deletes the overall indicator of the
\* (student, semester): an earlier one keeps all its field values.
C14_OverallIndicatorUntouchedWithoutAverage ==
    [][(/\ result'.fn = "recalculate_all_indicators"
        /\ calculate_overall_average(grades, 1, 1) = None)
       => /\ OverallKey(1, 1) \in DOMAIN indicators' <=> OverallKey(1, 1) \in DOMAIN indicators
          /\ OverallKey(1, 1) \in DOMAIN indicators =>
                indicators'[OverallKey(1, 1)] = indicators[OverallKey(1, 1)]]_vars

\* the recalculation ran on grades whose coefficients sum to zero, with an
\* earlier overall indicator stored
C14_Witness ==
    /\ result.fn = "recalculate_all_indicators"
    /\ result.value = Some("ok")
    /\ GradedSubjects(grades, 1, 1) # {}
    /\ calculate_overall_average(grades, 1, 1) = None
    /\ OverallKey(1, 1) \in DOMAIN indicators
    /\ <<1, 1, 1>> \in DOMAIN indicators

\* C20: calculate_overall_average returns no value, and does not raise, when
\* the student has no grade in the semester and when the coefficients of the
\* graded subjects sum to zero.
C20_NoOverallAverageWithoutGradesOrWeight ==
    LET graded == GradedSubjects(grades, 1, 1)
        coefficients == SumOver(graded, [c \in graded |-> subject[c].coefficient])
    IN  (result.fn = "calculate_overall_average" /\ (graded = {} \/ coefficients = 0)) =>
            result.value = None

\* the function was applied to two grades whose subjects have coefficient 0
C20_Witness ==
    /\ result.fn = "calculate_overall_average"
    /\ DOMAIN grades = CalcTriples
    /\ subject[1].coefficient = 0 /\ subject[2].coefficient = 0
    /\ result.value = None

\* C21: for a non-empty set of grades with values in [0, 20] whose subjects
\* all have a positive coefficient, the overall average returned is at least
\* the lowest and at most the highest grade value, hence within [0, 20].
C21_OverallAverageBetweenMinAndMax ==
    LET graded == GradedSubjects(grades, 1, 1)
    IN  (/\ result.fn = "calculate_overall_average"
         /\ graded # {}
         /\ \A c \in graded : subject[c].coefficient > 0) =>
            /\ result.value # None
            /\ \E c \in graded : grades[<<1, c, 1>>] <= result.value[1]
            /\ \E c \in graded : result.value[1] <= grades[<<1, c, 1>>]
            /\ 0 <= result.value[1] /\ result.value[1] <= 2000

\* 0.10 with coefficient 9.99 and 20.00 with coefficient 0.01 gave an average
\* strictly between the two
C21_Witness ==
    /\ result.fn = "calculate_overall_average"
    /\ subject[1].coefficient = 999 /\ subject[2].coefficient = 1
    /\ DOMAIN grades = CalcTriples
    /\ grades[<<1, 1, 1>>] = 10 /\ grades[<<1, 2, 1>>] = 2000
    /\ result.value # None
    /\ 10 < result.value[1] /\ result.value[1] < 2000

\* C22: calculate_subject_average returns the value of the one grade stored
\* for the (student, subject, semester), unchanged, and returns no value when
\* no grade is stored for it.
C22_SubjectAverageIsTheGrade ==
    result.fn = "calculate_subject_average" =>
        IF <<1, result.args[1], 1>> \in DOMAIN grades
        THEN result.value = Some(grades[<<1, result.args[1], 1>>])
        ELSE result.value = None

\* the grade of the subject of coefficient 2.00 is 16.00, and so is the
\* subject average
C22_Witness ==
    /\ result.fn = "calculate_subject_average"
    /\ subject[result.args[1]].coefficient = 200
    /\ <<1, result.args[1], 1>> \in DOMAIN grades
    /\ grades[<<1, result.args[1], 1>>] = 1600
    /\ result.value = Some(1600)

(***************************************************************************)
(* Properties of the class rank (SpecRank).                                *)
(***************************************************************************)
\* the active students of a class who have an overall average
Ranked(class_id) ==
    {s \in DOMAIN student :
        /\ student[s].class_assigned = class_id
        /\ student[s].is_active
        /\ calculate_overall_average(grades, s, 1) # None}

AverageOf(s) == calculate_overall_average(grades, s, 1)[1]

\* the position of a student in the order of enumeration
Position(s) == CHOOSE i \in DOMAIN roster : roster[i] = s

\* C16: on one grade table, the ranks _calculate_class_rank returns for the
\* N active students of a class who have an overall average are pairwise
\* distinct and are exactly 1..N, and a student whose average is strictly
\* the highest has rank 1.
C16_RanksArePermutation ==
    result.fn = "_calculate_class_rank" =>
        \A c \in RankClasses :
            /\ \A s \in Ranked(c) : result.value[s] # None
            /\ {result.value[s][1] : s \in Ranked(c)} = 1..Cardinality(Ranked(c))
            /\ \A s, o \in Ranked(c) : result.value[s] = result.value[o] => s = o
            /\ \A s \in Ranked(c) :
                  (\A o \in Ranked(c) \ {s} : AverageOf(o) < AverageOf(s))
                      => result.value[s] = Some(1)

\* three active students of one class, two of them with the same average
C16_Witness ==
    /\ result.fn = "_calculate_class_rank"
    /\ Ranked(1) = RankStudents
    /\ AverageOf(1) = AverageOf(2)
    /\ AverageOf(3) > AverageOf(1)
    /\ result.value[3] = Some(1)
    /\ {result.value[1], result.value[2]} = {Some(2), Some(3)}

\* C17: the rank of an active student with an overall average is one more
\* than the number of active classmates with a strictly higher average plus
\* the number of active classmates with an equal average enumerated before
\* the student; there is no rank for a student who is inactive or has no
\* overall average.
C17_RankCountsHigherAndEarlierEqual ==
    result.fn = "_calculate_class_rank" =>
        \A s \in DOMAIN student :
            IF s \in Ranked(student[s].class_assigned)
            THEN result.value[s] =
                   Some(1 + Cardinality({o \in Ranked(student[s].class_assigned) :
                                AverageOf(o) > AverageOf(s)})
                          + Cardinality({o \in Ranked(student[s].class_assigned) :
                                /\ AverageOf(o) = AverageOf(s)
                                /\ Position(o) < Position(s)}))
            ELSE result.value[s] = None

\* student 2 is enumerated before student 1, has the same average and takes
\* the rank before; student 3 is inactive and has no rank
C17_Witness ==
    /\ result.fn = "_calculate_class_rank"
    /\ Ranked(1) = {1, 2}
    /\ AverageOf(1) = AverageOf(2)
    /\ Position(2) < Position(1)
    /\ result.value[2] = Some(1) /\ result.value[1] = Some(2)
    /\ ~student[3].is_active /\ <<3, 1, 1>> \in DOMAIN grades
    /\ result.value[3] = None

(***************************************************************************)
(* Properties of the progression (SpecProg).                               *)
(***************************************************************************)
\* C18: calculate_progression returns ((current - previous) / previous) x 100
\* rounded to two decimals when both overall averages exist and the previous
\* one is not zero (14.00 then 16.00 gives 14.29), and returns no value when
\* one of the averages is unavailable or the previous one is exactly zero.
C18_ProgressionIsRoundedRelativeChange ==
    result.fn = "calculate_progression" =>
        LET cur_avg  == calculate_overall_average(grades, 1, result.args[1])
            prev_avg == calculate_overall_average(grades, 1, result.args[2])
        IN  IF cur_avg = None \/ prev_avg = None THEN result.value = None
            ELSE IF prev_avg[1] = 0 THEN result.value = None
            ELSE /\ result.value # None
                 /\ 2 * Abs(result.value[1] * prev_avg[1]
                            - (cur_avg[1] - prev_avg[1]) * 10000) <= Abs(prev_avg[1])

\* 14.00 in the previous semester and 16.00 in the current one gave 14.29
C18_Witness ==
    /\ result.fn = "calculate_progression"
    /\ calculate_overall_average(grades, 1, result.args[1]) = Some(1600)
    /\ calculate_overall_average(grades, 1, result.args[2]) = Some(1400)
    /\ result.value = Some(1429)

\* the semesters of the academic year of m that start before m
EarlierSemesters(m) ==
    {p \in DOMAIN semester :
        /\ semester[p].academic_year = semester[m].academic_year
        /\ semester[p].start_date < semester[m].start_date}

\* C19: the progression a recalculation of semester S stores is computed
\* against the semester of the same academic year with the greatest start
\* date before that of S; it is null when there is no such semester, and
\* null when that semester holds no grade of the student, even if an earlier
\* semester holds one.
C19_ProgressionAgainstImmediatelyPreceding ==
    (/\ result.fn = "recalculate_all_indicators"
     /\ result.value = Some("ok")
     /\ OverallKey(1, result.args[1]) \in DOMAIN indicators) =>
        LET m == result.args[1]
            stored == indicators[OverallKey(1, m)].progression_percentage
        IN  /\ EarlierSemesters(m) = {} => stored = None
            /\ \A p \in EarlierSemesters(m) :
                  (\A o \in EarlierSemesters(m) :
                       semester[o].start_date <= semester[p].start_date) =>
                      /\ stored = calculate_progression(grades, 1, m, p)
                      /\ GradedSubjects(grades, 1, p) = {} => stored = None

\* the semester before the recalculated one holds no grade, the one before
\* that holds one: no progression is stored
C19_Witness ==
    /\ result.fn = "recalculate_all_indicators"
    /\ result.value = Some("ok")
    /\ OverallKey(1, result.args[1]) \in DOMAIN indicators
    /\ Cardinality(EarlierSemesters(result.args[1])) = 2
    /\ \E p, q \in EarlierSemesters(result.args[1]) :
          /\ semester[q].start_date < semester[p].start_date
          /\ GradedSubjects(grades, 1, p) = {}
          /\ GradedSubjects(grades, 1, q) # {}
    /\ indicators[OverallKey(1, result.args[1])].progression_percentage = None

\* C23: calculate_class_statistics returns as student count the number of
\* active students of the class that have an overall average in the semester,
\* with the mean and the population standard deviation of exactly those
\* averages, each to the nearest hundredth; when that number is zero it
\* returns no mean, no standard deviation and a student count of 0, also
\* when the class has active students.
C23_ClassStatisticsOverStudentsWithAverage ==
    result.fn = "calculate_class_statistics" =>
        LET with_avg == Ranked(result.args[1])
            n  == Cardinality(with_avg)
            s1 == SumOver(with_avg, [s \in with_avg |-> AverageOf(s)])
            s2 == SumOver(with_avg, [s \in with_avg |-> AverageOf(s) * AverageOf(s)])
            d  == n * s2 - s1 * s1
        IN  /\ result.value.student_count = n
            /\ n = 0 => result.value.mean = None /\ result.value.std_dev = None
            /\ n > 0 =>
                  /\ result.value.mean # None
                  /\ 2 * Abs(result.value.mean[1] * n - s1) <= n
                  /\ result.value.std_dev # None
                  /\ result.value.std_dev[1] >= 0
                  /\ (2 * result.value.std_dev[1] * n + n)
                         * (2 * result.value.std_dev[1] * n + n) >= 4 * d
                  /\ \/ 2 * result.value.std_dev[1] * n <= n
                     \/ (2 * result.value.std_dev[1] * n - n)
                            * (2 * result.value.std_dev[1] * n - n) <= 4 * d

(***************************************************************************)
(* Properties of the requests served concurrently (SpecConc).              *)
(***************************************************************************)
IsPrefix(p, q) == Len(p) <= Len(q) /\ \A i \in 1..Len(p) : p[i] = q[i]

\* C6: a triggered recalculation runs only when the transaction of the grade
\* write is no longer open and none of its writes is uncommitted, so what it
\* reads is committed; no recalculation has run for a transaction that is
\* open or was rolled back.
C6_RecalculationOnlyAfterCommit ==
    \A t \in Threads :
        /\ pc[t] \in RecalcPcs => (txn[t] # "open" /\ pend[t] = <<>> /\ View(t) = grades)
        /\ txn[t] \in {"open", "rolledback"} => invoked[t] = <<>>

\* a bulk create was rolled back after a grade of it had been saved, while
\* the recalculation of another thread's committed grade runs
C6_Witness ==
    \E t, u \in Threads :
        /\ txn[t] = "rolledback" /\ events[t] # <<>> /\ pc[t] = "done"
        /\ pc[u] \in RecalcPcs /\ events[u] # <<>>

\* C7: the recalculations invoked for a request are, in their order, the
\* (student, semester) pairs of its grade events: once the request is served
\* there is one call for each event that was committed and none for events
\* that were rolled back.
C7_OneRecalculationPerCommittedEvent ==
    \A t \in Threads :
        /\ IsPrefix(invoked[t], events[t])
        /\ pc[t] = "done" =>
               invoked[t] = IF txn[t] = "rolledback" THEN <<>> ELSE events[t]

\* a bulk create of two grades is served: two events, two calls
C7_Witness ==
    \E t \in Threads :
        /\ pc[t] = "done" /\ txn[t] = "committed"
        /\ Len(events[t]) = 2
        /\ invoked[t] = events[t]
        /\ Len(outcomes[t]) = 2

\* C9: when two threads have each written a grade of the same (student,
\* semester) and the recalculations of both have completed, the subject
\* indicators and the overall indicator of the pair hold the averages of the
\* committed grades.
C9_ConcurrentRecalculationsKeepNewest ==
    \A t, u \in Threads :
        (/\ t # u
         /\ pc[t] = "done" /\ pc[u] = "done"
         /\ req[t].kind \in {"create", "update"} /\ req[u].kind \in {"create", "update"}
         /\ events[t] # <<>> /\ events[u] = events[t]
         /\ Len(outcomes[t]) = 1 /\ outcomes[t][1].outcome = "ok"
         /\ Len(outcomes[u]) = 1 /\ outcomes[u][1].outcome = "ok") =>
            AveragesStored(grades, indicators, events[t][1][1], events[t][1][2])

\* C10: the indicator table changes only in the step in which a
\* recalculation commits, which installs all the rows the recalculation
\* wrote at once; a recalculation that fails leaves the table as it was.
C10_RecalculationAtomic ==
    [][/\ indicators' # indicators =>
            \E t \in Threads :
                /\ pc[t] = "r_finish"
                /\ Len(outcomes'[t]) = Len(outcomes[t]) + 1
                /\ outcomes'[t][Len(outcomes'[t])].outcome = "ok"
                /\ \A k \in DOMAIN wbuf[t] :
                       k \in DOMAIN indicators' /\ indicators'[k] = wbuf[t][k]
       /\ \A t \in Threads :
            (/\ Len(outcomes'[t]) = Len(outcomes[t]) + 1
             /\ outcomes'[t][Len(outcomes'[t])].outcome = "error") =>
                indicators' = indicators]_vars

\* a recalculation has failed after it had upserted a subject indicator, and
\* the row it wrote is not in the table
C10_Witness ==
    \E t \in Threads :
        /\ outcomes[t] # <<>>
        /\ outcomes[t][1].outcome = "error"
        /\ outcomes[t][1].rolled_back # {}
        /\ \A k \in outcomes[t][1].rolled_back : k \notin DOMAIN indicators

\* the rows stored for a key
RowsOf(key) ==
    (IF key \in DOMAIN indicators THEN 1 ELSE 0) + (IF key \in DOMAIN extra THEN 1 ELSE 0)

\* C15: in every reachable state, concurrent recalculations of one (student,
\* semester) included, there is at most one indicator row for each key
\* (student, semester, subject) and at most one overall row for each
\* (student, semester).
C15_AtMostOneIndicatorPerKey ==
    \A key \in Keys : RowsOf(key) <= 1

\* C24: whatever grade requests are served, two creates of one triple
\* served concurrently included, the Grade table holds at most one grade for
\* each (student, subject, semester); a create for a triple that has a grade
\* is rejected and leaves the table as it was.
C24_AtMostOneGradePerTriple ==
    [][/\ twice' = {}
       /\ \A t \in Threads :
             (/\ pc[t] = "idle"
              /\ req'[t].kind = "create"
              /\ req'[t].items[1][1] \in DOMAIN grades) => pc'[t] = "done"
       /\ \A t \in Threads :
             (/\ pc[t] = "c_insert"
              /\ pc'[t] # "c_insert"
              /\ req[t].items[1][1] \in DOMAIN grades) =>
                 /\ grades' = grades
                 /\ pc'[t] = "done"
                 /\ events'[t] = <<>>]_vars

\* a create was validated while its triple had no grade, another thread's
\* create of the triple has been committed since, and the INSERT of the first
\* was refused
C24_Witness ==
    \E t, u \in Threads :
        /\ t # u
        /\ req[t].kind = "create" /\ req[u].kind = "create"
        /\ req[t].items[1][1] = req[u].items[1][1]
        /\ req[t].items[1][2] # req[u].items[1][2]
        /\ pc[t] = "done" /\ events[t] = <<>> /\ txn[t] = "none"
        /\ events[u] # <<>>
        /\ grades[req[t].items[1][1]] = req[u].items[1][2]

\* a payload with an item that is not valid on the grade table g: a value
\* outside [0, 20], an inactive student, a triple that has a grade, or a
\* triple that another item of the payload has
PayloadInvalid(items, g) ==
    \E i \in 1..Len(items) :
        \/ items[i][2] < 0 \/ items[i][2] > 2000
        \/ ~student[items[i][1][1]].is_active
        \/ items[i][1] \in DOMAIN g
        \/ \E j \in 1..Len(items) : j # i /\ items[j][1] = items[i][1]

\* C25: bulk creation is all or nothing. A payload with an invalid item is
\* rejected before any write; the grades of a payload enter the table in one
\* step, all of them, and in no other step of the request; a request that
\* ended without committing (invalid payload, or integrity error at an
\* INSERT) has stored no grade and run no recalculation, and one that
\* committed has run a recalculation for each item.
C25_BulkCreateAllOrNothing ==
    [][\A t \in Threads :
         /\ (/\ pc[t] = "idle"
             /\ req'[t].kind = "bulk"
             /\ PayloadInvalid(req'[t].items, grades)) =>
                pc'[t] = "done" /\ txn'[t] = "none"
         /\ (req[t].kind = "bulk" /\ (pc'[t] # pc[t] \/ idx'[t] # idx[t])) =>
                IF pc[t] = "commit"
                THEN /\ \A i \in 1..Len(req[t].items) :
                           req[t].items[i][1] \notin DOMAIN grades
                     /\ grades' = InsertAll(grades, req[t].items)
                ELSE grades' = grades
         /\ (req'[t].kind = "bulk" /\ pc'[t] = "done") =>
                IF txn'[t] = "committed"
                THEN Len(invoked'[t]) = Len(req'[t].items)
                ELSE invoked'[t] = <<>> /\ hooks'[t] = <<>> /\ pend'[t] = <<>>]_vars

\* a bulk create of two grades had inserted the first when its second INSERT
\* met a grade committed since the validation: nothing of the payload is
\* stored and no recalculation has run
C25_Witness ==
    \E t \in Threads :
        /\ req[t].kind = "bulk"
        /\ Len(req[t].items) = 2
        /\ pc[t] = "done"
        /\ txn[t] = "rolledback"
        /\ events[t] # <<>>
        /\ invoked[t] = <<>>
        /\ req[t].items[1][1] \notin DOMAIN grades

\* C27: deleting a student through the API leaves the student's row in the
\* table with is_active false, and changes no other field of it, no other
\* student, no grade and no indicator; if the student was inactive nothing
\* at all changes.
C27_StudentDeleteIsSoft ==
    [][(nreq' = nreq + 1 /\ last'.op = "delete_student") =>
          /\ DOMAIN student' = DOMAIN student
          /\ \E s \in DOMAIN student :
                /\ student' = [student EXCEPT ![s].is_active = FALSE]
                /\ ~student[s].is_active => student' = student
          /\ grades' = grades
          /\ twice' = twice
          /\ indicators' = indicators
          /\ extra' = extra
          /\ UNCHANGED <<subject, semester>>]_vars

\* a student who has a grade and indicators was deleted: inactive, with the
\* grade and the indicators still stored
C27_Witness ==
    /\ last.op = "delete_student"
    /\ last.status = 204
    /\ \E s \in DOMAIN student :
          /\ ~student[s].is_active
          /\ \E k \in DOMAIN grades : k[1] = s
          /\ \E k \in DOMAIN indicators : k[1] = s

\* C28: an update that takes a grade from one (student, semester) pair to
\* another runs the recalculation of the previous pair as well as of the new
\* one, after which the overall indicator of the previous pair, if the pair
\* has an overall average, holds the average of the grades the pair has left.
C28_MoveRecalculatesPreviousPair ==
    [][(nreq' = nreq + 1 /\ last'.op = "update" /\ last'.status = 200) =>
          \A old \in DOMAIN grades \ DOMAIN grades' :
              LET new == last'.triples[1]
              IN  <<old[1], old[3]>> # <<new[1], new[3]>> =>
                    /\ \E i \in DOMAIN last'.recalcs :
                          /\ last'.recalcs[i].student = old[1]
                          /\ last'.recalcs[i].semester = old[3]
                    /\ \E i \in DOMAIN last'.recalcs :
                          /\ last'.recalcs[i].student = new[1]
                          /\ last'.recalcs[i].semester = new[3]
                    /\ calculate_overall_average(grades', old[1], old[3]) # None =>
                          /\ OverallKey(old[1], old[3]) \in DOMAIN indicators'
                          /\ Some(indicators'[OverallKey(old[1], old[3])].average)
                                = calculate_overall_average(grades', old[1], old[3])]_vars

\* C29: a call of recalculate_all_indicators for student 1 and semester 1
\* deletes no indicator row, leaves every row of another student or another
\* semester absent or as it was, and changes no grade, student, subject or
\* semester.
C29_RecalculationWritesOnlyItsPair ==
    [][result'.fn = "recalculate_all_indicators" =>
          /\ DOMAIN indicators \subseteq DOMAIN indicators'
          /\ \A k \in DOMAIN indicators' :
                (k[1] # 1 \/ k[2] # 1) =>
                    k \in DOMAIN indicators /\ indicators'[k] = indicators[k]
          /\ extra' = extra
          /\ grades' = grades
          /\ twice' = twice
          /\ UNCHANGED <<student, subject, semester>>]_vars

\* the call wrote a subject indicator and the overall indicator of the pair
\* on a table that holds a subject indicator of the pair without a grade and
\* indicators of another student and of another semester
C29_Witness ==
    /\ result.fn = "recalculate_all_indicators"
    /\ result.value = Some("ok")
    /\ DOMAIN grades = {<<1, 1, 1>>}
    /\ DOMAIN indicators = DOMAIN EarlierRows \cup {<<1, 1, 1>>}
    /\ indicators[OverallKey(1, 1)] # EarlierRows[OverallKey(1, 1)]
    /\ \A k \in DOMAIN EarlierRows \ {OverallKey(1, 1)} : indicators[k] = EarlierRows[k]

\* C30: a progression computed by calculate_progression from a previous
\* average above 0 and a current average, both at most 20, has at most 6
\* digits (its absolute value is at most 9999.99), and no recalculation
\* fails on writing the overall indicator.
C30_ProgressionFitsField ==
    /\ (result.fn = "calculate_progression" /\ result.value # None) =>
           /\ result.value[1] <= 999999
           /\ result.value[1] >= -999999
    /\ result.fn = "recalculate_all_indicators" => result.value # Some("error")

\* the overall indicators a summary request with these parameters is about
SelectedOverall(args) ==
    {k \in DOMAIN indicators :
        /\ k[3] = NullSubject
        /\ args[1] # None => student[k[1]].class_assigned = args[1][1]
        /\ args[2] # None => k[2] = args[2][1]
        /\ (args[3] # None /\ args[3][1] >= 0) => k[1] = args[3][1]}

\* the category of an average
Category(a) ==
    IF a >= 1600 THEN "excellent"
    ELSE IF a >= 1400 THEN "good"
    ELSE IF a >= 1000 THEN "average"
    ELSE "poor"

\* C26: the performance distribution of a summary counts every selected
\* overall indicator in the one category of its average (excellent from 16,
\* good from 14 to below 16, average from 10 to below 14, poor below 10), so
\* the four counts sum to the number of selected overall indicators.
C26_DistributionPartitionsSelected ==
    result.fn = "summary" =>
        LET dist == result.value.performance_distribution
            sel  == SelectedOverall(result.args)
        IN  /\ \A c \in {"excellent", "good", "average", "poor"} :
                  dist[c] = Cardinality({k \in sel : Category(indicators[k].average) = c})
            /\ dist.excellent + dist.good + dist.average + dist.poor = Cardinality(sel)

\* the unfiltered summary over overall averages 18.00, 14.67 and 12.00 and a
\* subject indicator: one excellent, one good, one average, none poor
C26_Witness ==
    /\ result.fn = "summary"
    /\ result.args = <<None, None, None>>
    /\ {indicators[k].average : k \in SelectedOverall(result.args)} = {1800, 1467, 1200}
    /\ Cardinality(DOMAIN indicators) = 4
    /\ result.value.performance_distribution =
           [excellent |-> 1, good |-> 1, average |-> 1, poor |-> 0]

(***************************************************************************)
(* C11: called with the id of a student or of a semester that does not     *)
(* exist, recalculate_all_indicators writes no indicator row and reports   *)
(* to its caller an outcome that differs from the one of a completed       *)
(* recalculation.                                                          *)
(***************************************************************************)
C11_NotFoundReportedToCaller ==
    [][(/\ last'.op = "recalculate"
        /\ nreq' = nreq + 1
        /\ last'.recalcs[1].outcome = "notfound")
       => /\ indicators' = indicators
          /\ last'.recalcs[1].caller # CallerSees("ok")]_vars

(***************************************************************************)
(* C12: a failure other than not-found during a recalculation leaves the   *)
(* method as an error: a recalculation during which a read of the storage  *)
(* failed never completes successfully.                                    *)
(***************************************************************************)
C12_FailurePropagates ==
    last.op = "recalculate_fault" => last.recalcs[1].caller = "raised"

====
